---- MODULE Spec2Model ----
(***************************************************************************)
(* Model of validated_dc (src/validated_dc.py): dataclasses whose field    *)
(* values are validated against the field annotations after construction   *)
(* and on every is_valid() call.                                           *)
(*                                                                         *)
(* Python objects are records tagged by k:                                 *)
(*   [k |-> "NoneType"]            None                                    *)
(*   [k |-> "int",  n |-> 1]       an int                                  *)
(*   [k |-> "bool", b |-> TRUE]    a bool (a subclass of int)              *)
(*   [k |-> "str",  s |-> "x"]     a str                                   *)
(*   [k |-> "list", elems |-> s]   a list                                  *)
(*   [k |-> "tuple", elems |-> s]  a tuple                                 *)
(*   [k |-> "dict", items |-> s]   a dict, s the sequence of its           *)
(*                                 [key, val] items in insertion order     *)
(*   [k |-> "exc", ...]            an exception object                     *)
(*   [k |-> "inst", cls |-> c, attrs |-> ..., _errors__vdc |-> ..., ...]   *)
(*                                 an instance of the dataclass c with     *)
(*                                 its fields (attrs) and the private      *)
(*                                 attributes the validation keeps on it   *)
(*                                 (n_runs counts its validation runs)     *)
(* Validation never mutates an object it was handed in place (asdict       *)
(* copies, lists are rebuilt, setattr targets the validated instance), so  *)
(* objects are modelled by value.  The one list held in two places, the    *)
(* error accumulator that the report stores for a failed field, is kept    *)
(* in step by Shared where a check is called outside a run.                *)
(*                                                                         *)
(* Where the code binds the result of a call to a local name and reads it  *)
(* several times, the definitions bind it as the parameter of a local      *)
(* operator (LET next(r) == ... IN next(call)), so the call is written     *)
(* once.                                                                   *)
(***************************************************************************)
EXTENDS Integers, Sequences, FiniteSets, TLC

VARIABLES
    inst,     \* the record instance under test (None before it is constructed)
    twin,     \* a second instance, built by the same constructor call but with
              \* the record-typed argument passed as an instance, not a mapping
    last,     \* the last operation on inst: its name (op), the field it
              \* wrote (name), what it returned or raised (ret), and the field
              \* values (attrs), the report and the replace flag of inst
              \* right before it
    probe,    \* the last direct call of the check method on a fixture instance:
              \* the instance before the call (before), the arguments (value,
              \* annotation), what it returned (result) and the instance
              \* after it (self); None while no such call was made
    nested,   \* the last call of get_nested_validated_dc: the record type it
              \* was called on (cls) and what it returned or raised (call);
              \* None while no such call was made
    checked,  \* the fields the last validation run of inst checked, in order,
              \* each with the result of its check
    n_writes  \* the number of direct writes made to the fields of inst

vars == <<inst, twin, last, probe, nested, checked, n_writes>>

\* ---------------------------------------------------------------- objects

None == [k |-> "NoneType"]
PInt(n) == [k |-> "int", n |-> n]
PBool(b) == [k |-> "bool", b |-> b]
PStr(s) == [k |-> "str", s |-> s]
PList(elems) == [k |-> "list", elems |-> elems]
PTuple(elems) == [k |-> "tuple", elems |-> elems]
PDict(items) == [k |-> "dict", items |-> items]
Item(key, val) == [key |-> key, val |-> val]

\* An attribute that was never assigned (reading it is an AttributeError).
Unset == [k |-> "unset"]

\* type(value).__name__
type(value) == IF value.k = "inst" THEN value.cls ELSE value.k

\* bool(value): the truth value of an object.
bool(value) ==
    CASE value.k = "NoneType" -> FALSE
      [] value.k = "bool" -> value.b
      [] value.k = "int" -> value.n # 0
      [] value.k = "str" -> value.s # ""
      [] value.k = "list" -> value.elems # <<>>
      [] value.k = "tuple" -> value.elems # <<>>
      [] value.k = "dict" -> value.items # <<>>
      [] OTHER -> TRUE

\* dict lookups over the ordered items of a dict
Keys(items) == {items[j].key : j \in 1..Len(items)}
HasKey(items, key) == \E j \in 1..Len(items) : items[j].key = key
Lookup(items, key) ==
    items[CHOOSE j \in 1..Len(items) : items[j].key = key].val

\* d[key] = val on a dict: replaces the value in place, or appends the key.
SetItem(items, key, val) ==
    IF HasKey(items, key)
    THEN [j \in 1..Len(items) |->
            IF items[j].key = key THEN Item(key, val) ELSE items[j]]
    ELSE Append(items, Item(key, val))

\* ------------------------------------------------------------ annotations

\* A class used as an annotation: <class 'name'>.
Class(name) == [mod |-> "class", name |-> name]
\* A subscripted alias of the typing module: typing.name[args].
Alias(name, args) == [mod |-> "typing", name |-> name, args |-> args]

Optional(a) == Alias("Optional", <<a, Class("NoneType")>>)
Union(args) == Alias("Union", args)
List(a) == Alias("List", <<a>>)
Literal(values) == Alias("Literal", values)
\* typing.Any (Any itself names an operator of the TLC module)
typing_Any == Alias("Any", <<>>)
Dict(key, val) == Alias("Dict", <<key, val>>)
\* An annotation that is no type at all: the object whose str() is name.
NotAType(name) == [mod |-> "object", name |-> name]

\* str(annotation), as the tokens the alias tests look at.
str_annotation(annotation) ==
    IF annotation.mod = "typing"
    THEN <<"typing", ".", annotation.name, "[", "]">>
    ELSE IF annotation.mod = "class"
    THEN <<"<class '", annotation.name, "'>">>
    ELSE <<annotation.name>>

startswith(s, prefix) ==
    Len(s) >= Len(prefix) /\ SubSeq(s, 1, Len(prefix)) = prefix

\* The record types under test and their declared fields, in order.
Field(name, annotation) ==
    [name |-> name, type |-> annotation, has_default |-> FALSE,
     default |-> None]
FieldWithDefault(name, annotation, default) ==
    [name |-> name, type |-> annotation, has_default |-> TRUE,
     default |-> default]

ValidatedClasses ==
    {"Foo", "Bar", "Address", "Phone", "Email", "Person", "Mix",
     "Office", "Wrap", "Team", "City", "Conf", "Box", "Workers",
     "Ping", "Pong", "Node", "Order", "Holder", "Outer",
     "Nums"}

Fields(cls) ==
    CASE cls = "Foo" -> <<Field("i", Class("int"))>>
      [] cls = "Bar" -> <<Field("foo", Class("Foo"))>>
      [] cls = "Address" ->
            <<Field("city", Class("str")),
              FieldWithDefault("zip_code", Optional(Class("str")), None)>>
      [] cls = "Phone" -> <<Field("phone", Class("str"))>>
      [] cls = "Email" -> <<Field("email", Class("str"))>>
      [] cls = "Person" ->
            <<Field("name", Class("str")),
              Field("contact", Union(<<Class("Phone"), Class("Email")>>))>>
      [] cls = "Mix" ->
            <<Field("u", Union(<<List(Class("Foo")), Class("list")>>))>>
      [] cls = "Office" -> <<Field("address", Class("Address"))>>
      [] cls = "Wrap" -> <<Field("mix", Class("Mix"))>>
      [] cls = "Team" -> <<Field("members", List(Class("Foo")))>>
      [] cls = "City" -> <<Field("city", Class("str"))>>
      [] cls = "Conf" -> <<Field("d", Dict(Class("str"), Class("str")))>>
      [] cls = "Box" -> <<Field("v", typing_Any)>>
      [] cls = "Workers" ->
            <<Field("person",
                    Union(<<Class("Person"), List(Class("Person"))>>))>>
      [] cls = "Ping" -> <<Field("pong", Class("Pong"))>>
      [] cls = "Pong" -> <<Field("ping", Class("Ping"))>>
      [] cls = "Node" ->
            <<FieldWithDefault("nxt", Optional(Class("Node")), None)>>
      [] cls = "Order" ->
            <<Field("foo", Class("Foo")), Field("note", Class("str"))>>
      [] cls = "Plain" -> <<Field("x", Class("int"))>>
      [] cls = "Holder" -> <<Field("p", Class("Plain"))>>
      [] cls = "Outer" -> <<Field("h", Class("Holder"))>>
      [] cls = "Nums" ->
            <<Field("u", List(Union(<<Class("Foo"), Class("int")>>)))>>

FieldNames(cls) == {Fields(cls)[j].name : j \in 1..Len(Fields(cls))}

\* issubclass(annotation, InstanceValidation), for a class
issubclass_InstanceValidation(annotation) ==
    annotation.name \in ValidatedClasses

\* isinstance(value, annotation) raises TypeError unless annotation is a class.
isinstance_raises(annotation) == annotation.mod # "class"

\* isinstance(value, annotation) for a class: the type itself or a base of it
\* (bool derives from int, everything from object).
isinstance(value, annotation) ==
    \/ type(value) = annotation.name
    \/ annotation.name = "object"
    \/ type(value) = "bool" /\ annotation.name = "int"

\* ------------------------------------------------------------- str(value)

\* The characters of the strings that occur as names and data.
Chars(s) ==
    CASE s = "" -> <<>>
      [] s = "x" -> <<"x">>
      [] s = "1" -> <<"1">>
      [] s = "i" -> <<"i">>
      [] s = "u" -> <<"u">>
      [] s = "i_x" -> <<"i", "_", "x">>
      [] s = "foo" -> <<"f", "o", "o">>
      [] s = "Foo" -> <<"F", "o", "o">>
      [] s = "Bar" -> <<"B", "a", "r">>
      [] s = "Mix" -> <<"M", "i", "x">>
      [] s = "city" -> <<"c", "i", "t", "y">>
      [] s = "zip_code" -> <<"z", "i", "p", "_", "c", "o", "d", "e">>
      [] s = "Address" -> <<"A", "d", "d", "r", "e", "s", "s">>
      [] s = "Samara" -> <<"S", "a", "m", "a", "r", "a">>
      [] s = "name" -> <<"n", "a", "m", "e">>
      [] s = "Ivan" -> <<"I", "v", "a", "n">>
      [] s = "contact" -> <<"c", "o", "n", "t", "a", "c", "t">>
      [] s = "phone" -> <<"p", "h", "o", "n", "e">>
      [] s = "email" -> <<"e", "m", "a", "i", "l">>
      [] s = "Phone" -> <<"P", "h", "o", "n", "e">>
      [] s = "Email" -> <<"E", "m", "a", "i", "l">>
      [] s = "Person" -> <<"P", "e", "r", "s", "o", "n">>
      [] s = "address" -> <<"a", "d", "d", "r", "e", "s", "s">>
      [] s = "mix" -> <<"m", "i", "x">>
      [] s = "Wrap" -> <<"W", "r", "a", "p">>
      [] s = "Team" -> <<"T", "e", "a", "m">>
      [] s = "City" -> <<"C", "i", "t", "y">>
      [] s = "Conf" -> <<"C", "o", "n", "f">>
      [] s = "Box" -> <<"B", "o", "x">>
      [] s = "Workers" -> <<"W", "o", "r", "k", "e", "r", "s">>
      [] s = "person" -> <<"p", "e", "r", "s", "o", "n">>
      [] s = "Ping" -> <<"P", "i", "n", "g">>
      [] s = "Pong" -> <<"P", "o", "n", "g">>
      [] s = "Node" -> <<"N", "o", "d", "e">>
      [] s = "ping" -> <<"p", "i", "n", "g">>
      [] s = "pong" -> <<"p", "o", "n", "g">>
      [] s = "nxt" -> <<"n", "x", "t">>
      [] s = "Order" -> <<"O", "r", "d", "e", "r">>
      [] s = "note" -> <<"n", "o", "t", "e">>
      [] s = "Plain" -> <<"P", "l", "a", "i", "n">>
      [] s = "Holder" -> <<"H", "o", "l", "d", "e", "r">>
      [] s = "Outer" -> <<"O", "u", "t", "e", "r">>
      [] s = "p" -> <<"p">>
      [] s = "h" -> <<"h">>
      [] s = "Nums" -> <<"N", "u", "m", "s">>
      [] s = "v" -> <<"v">>
      [] s = "d" -> <<"d">>
      [] s = "members" -> <<"m", "e", "m", "b", "e", "r", "s">>
      [] s = "Office" -> <<"O", "f", "f", "i", "c", "e">>
      [] s = "None" -> <<"N", "o", "n", "e">>
      [] s = "True" -> <<"T", "r", "u", "e">>
      [] s = "False" -> <<"F", "a", "l", "s", "e">>

Digit(d) == <<"0", "1", "2", "3", "4", "5", "6", "7", "8", "9">>[d + 1]

RECURSIVE IntStr(_)
IntStr(n) ==
    IF n < 10 THEN <<Digit(n)>> ELSE IntStr(n \div 10) \o <<Digit(n % 10)>>

RECURSIVE repr(_), JoinItems(_, _), JoinElems(_, _), JoinAttrs(_, _, _)

\* ", ".join("%r: %r" % item) over the items from index j on
JoinItems(items, j) ==
    IF j > Len(items) THEN <<>>
    ELSE (IF j > 1 THEN <<",", " ">> ELSE <<>>)
         \o <<"'">> \o Chars(items[j].key) \o <<"'", ":", " ">>
         \o repr(items[j].val) \o JoinItems(items, j + 1)

JoinElems(elems, j) ==
    IF j > Len(elems) THEN <<>>
    ELSE (IF j > 1 THEN <<",", " ">> ELSE <<>>)
         \o repr(elems[j]) \o JoinElems(elems, j + 1)

\* the "name=value" list of the __repr__ a dataclass generates
JoinAttrs(value, fields, j) ==
    IF j > Len(fields) THEN <<>>
    ELSE (IF j > 1 THEN <<",", " ">> ELSE <<>>)
         \o Chars(fields[j].name) \o <<"=">>
         \o repr(value.attrs[fields[j].name])
         \o JoinAttrs(value, fields, j + 1)

repr(value) ==
    CASE value.k = "NoneType" -> Chars("None")
      [] value.k = "bool" -> IF value.b THEN Chars("True") ELSE Chars("False")
      [] value.k = "int" -> IntStr(value.n)
      [] value.k = "str" -> <<"'">> \o Chars(value.s) \o <<"'">>
      [] value.k = "list" -> <<"[">> \o JoinElems(value.elems, 1) \o <<"]">>
      [] value.k = "tuple" ->
            <<"(">> \o JoinElems(value.elems, 1)
            \o (IF Len(value.elems) = 1 THEN <<",">> ELSE <<>>) \o <<")">>
      [] value.k = "dict" -> <<"{">> \o JoinItems(value.items, 1) \o <<"}">>
      [] value.k = "inst" ->
            Chars(value.cls) \o <<"(">>
            \o JoinAttrs(value, Fields(value.cls), 1) \o <<")">>

\* str(value): a str is itself, every other object prints its repr.
str(value) == IF value.k = "str" THEN Chars(value.s) ELSE repr(value)

MAX_REPR == 30

get_value_repr(value) ==
    LET shorten(result) ==
            IF Len(result) > MAX_REPR
            THEN SubSeq(result, 1, MAX_REPR - 4) \o <<".", ".", ".">>
                 \o <<result[Len(result)]>>
            ELSE result
    IN  shorten(str(value))

\* ---------------------------------------------------------- error objects

TypeError(msg) == [k |-> "exc", type |-> "TypeError", msg |-> msg]

BasicValidationError(value_repr, value_type, annotation, exception) ==
    [cls |-> "BasicValidationError", value_repr |-> value_repr,
     value_type |-> value_type, annotation |-> annotation,
     exception |-> exception]

InstanceValidationError(value_repr, value_type, annotation, exception, errors) ==
    [cls |-> "InstanceValidationError", value_repr |-> value_repr,
     value_type |-> value_type, annotation |-> annotation,
     exception |-> exception, errors |-> errors]

TypingValidationError(value_repr, value_type, annotation, exception) ==
    [cls |-> "TypingValidationError", value_repr |-> value_repr,
     value_type |-> value_type, annotation |-> annotation,
     exception |-> exception]

ListValidationError(item_index, item_repr, item_type, annotation) ==
    [cls |-> "ListValidationError", item_index |-> item_index,
     item_repr |-> item_repr, item_type |-> item_type,
     annotation |-> annotation]

LiteralValidationError(literal_repr, literal_type, annotation) ==
    [cls |-> "LiteralValidationError", literal_repr |-> literal_repr,
     literal_type |-> literal_type, annotation |-> annotation]

\* ------------------------------------------------------- BasicValidation

\* The outcome of a check: its boolean result and the instance as the check
\* left it (the checks keep their scratch state on self).
Outcome(result, self) == [result |-> result, self |-> self]

\* _init_validation of the basic layer that keeps a report it finds.
_init_validation_Basic_keeps(self) ==
    IF self._errors__vdc = Unset
    THEN [self EXCEPT !._errors__vdc = PDict(<<>>)]
    ELSE self

_init_validation_Basic(self) == [self EXCEPT !._errors__vdc = PDict(<<>>)]

\* The basic check that records the error of a raising isinstance without
\* the exception.
BasicValidation_is_instance__vdc_drops_exception(self, value, annotation) ==
    IF isinstance_raises(annotation) \/ ~isinstance(value, annotation)
    THEN Outcome(FALSE,
            [self EXCEPT !._field_errors__vdc =
                Append(@, BasicValidationError(
                    get_value_repr(value), type(value), annotation, None))])
    ELSE Outcome(TRUE, self)

BasicValidation_is_instance__vdc(self, value, annotation) ==
    LET raises == isinstance_raises(annotation)
        exception ==
            IF raises
            THEN TypeError("isinstance() arg 2 must be a type, a tuple of types, or a union")
            ELSE None
        result == IF raises THEN FALSE ELSE isinstance(value, annotation)
    IN  IF ~result
        THEN Outcome(FALSE,
                [self EXCEPT !._field_errors__vdc =
                    Append(@, BasicValidationError(
                        get_value_repr(value), type(value),
                        annotation, exception))])
        ELSE Outcome(TRUE, self)

_init_field_validation_Basic(self, field) ==
    [self EXCEPT !._field_errors__vdc = <<>>,
                 !._field_name__vdc = field.name,
                 !._field_value__vdc = self.attrs[field.name],
                 !._field_annotation__vdc = field.type]

_save_current_field_errors(self) ==
    [self EXCEPT !._errors__vdc =
        PDict(SetItem(@.items, self._field_name__vdc, self._field_errors__vdc))]

\* ---------------------------------------------------- InstanceValidation

_init_validation(self) ==
    [_init_validation_Basic(self) EXCEPT !._is_replace__vdc = TRUE,
                                         !._replaced_field_names = <<>>]

\* The reset of the field state that leaves the pending substitution alone.
_init_field_validation_keeps_replacement(self, field) ==
    _init_field_validation_Basic(self, field)

_init_field_validation(self, field) ==
    [_init_field_validation_Basic(self, field) EXCEPT !._replacement__vdc = None]

\* _try_replacing that notes the field as replaced without writing to it.
_try_replacing_no_setattr(self) ==
    IF self._is_replace__vdc /\ self._replacement__vdc # None
    THEN [self EXCEPT !._replaced_field_names = Append(@, self._field_name__vdc)]
    ELSE self

\* _try_replacing that writes whatever is pending, None included, and with
\* the flag off as well.
_try_replacing_unguarded(self) ==
    [self EXCEPT !.attrs[self._field_name__vdc] = self._replacement__vdc,
                 !._replaced_field_names = Append(@, self._field_name__vdc)]

_try_replacing(self) ==
    IF self._is_replace__vdc /\ self._replacement__vdc # None
    THEN [self EXCEPT !.attrs[self._field_name__vdc] = self._replacement__vdc,
                      !._replaced_field_names = Append(@, self._field_name__vdc)]
    ELSE self

\* dataclasses.asdict: the fields of a dataclass instance as a dict, applied
\* recursively to the instances, lists and dicts found in the field values.
RECURSIVE asdict(_), asdict_fields(_, _, _), asdict_elems(_, _), asdict_items(_, _)

asdict_fields(value, fields, j) ==
    IF j > Len(fields) THEN <<>>
    ELSE <<Item(fields[j].name, asdict(value.attrs[fields[j].name]))>>
         \o asdict_fields(value, fields, j + 1)

asdict_elems(elems, j) ==
    IF j > Len(elems) THEN <<>>
    ELSE <<asdict(elems[j])>> \o asdict_elems(elems, j + 1)

asdict_items(items, j) ==
    IF j > Len(items) THEN <<>>
    ELSE <<Item(items[j].key, asdict(items[j].val))>>
         \o asdict_items(items, j + 1)

asdict(value) ==
    CASE value.k = "inst" -> PDict(asdict_fields(value, Fields(value.cls), 1))
      [] value.k = "list" -> PList(asdict_elems(value.elems, 1))
      [] value.k = "tuple" -> PTuple(asdict_elems(value.elems, 1))
      [] value.k = "dict" -> PDict(asdict_items(value.items, 1))
      [] OTHER -> value

\* ------------------------------------------------------ TypingValidation

STR_ALIASES ==
    [List |-> <<"typing", ".", "List">>,
     Union |-> <<"typing", ".", "Union">>,
     Optional |-> <<"typing", ".", "Optional">>,
     Any |-> <<"typing", ".", "Any">>,
     Literal |-> <<"typing", ".", "Literal">>]

\* alias[:alias.find('.')]
UpToDot(alias) ==
    SubSeq(alias, 1, (CHOOSE j \in 1..Len(alias) : alias[j] = ".") - 1)

_is_typing_alias(annotation) ==
    \E a \in DOMAIN STR_ALIASES : startswith(annotation, UpToDot(STR_ALIASES[a]))

_is_supported_alias(annotation) ==
    \E a \in DOMAIN STR_ALIASES : startswith(annotation, STR_ALIASES[a])

\* The name of the method that checks the alias, "None" when there is none.
_get_alias_method(annotation) ==
    CASE startswith(annotation, STR_ALIASES["Union"])
         \/ startswith(annotation, STR_ALIASES["Optional"]) -> "_is_union_instance"
      [] startswith(annotation, STR_ALIASES["List"]) -> "_is_list_instance"
      [] startswith(annotation, STR_ALIASES["Literal"]) -> "_is_literal_instance"
      [] startswith(annotation, STR_ALIASES["Any"]) -> "_is_any_instance"
      [] OTHER -> "None"

\* a == b on two objects: numbers compare by value (True == 1), every other
\* pair of objects of the model by structure.
py_eq(a, b) ==
    LET num(v) == IF v.k = "bool" THEN (IF v.b THEN 1 ELSE 0) ELSE v.n
    IN  IF a.k \in {"int", "bool"} /\ b.k \in {"int", "bool"}
        THEN num(a) = num(b)
        ELSE a = b

\* The Literal check that compares the value with the first enumerated value
\* only.
_is_literal_instance_first_only(self, value, annotation) ==
    IF py_eq(value, annotation.args[1]) THEN Outcome(TRUE, self)
    ELSE Outcome(FALSE,
            [self EXCEPT !._typing_field_error =
                LiteralValidationError(
                    get_value_repr(value), type(value), annotation)])

_is_literal_instance(self, value, annotation) ==
    LET result ==
            \E j \in 1..Len(annotation.args) : py_eq(value, annotation.args[j])
    IN  IF ~result
        THEN Outcome(FALSE,
                [self EXCEPT !._typing_field_error =
                    LiteralValidationError(
                        get_value_repr(value), type(value), annotation)])
        ELSE Outcome(TRUE, self)

\* The Any check that proposes the value it was given as the substitution.
_is_any_instance_proposes(self, value, type_) ==
    Outcome(TRUE, [self EXCEPT !._replacement__vdc = value])

_is_any_instance(self, value, type_) == Outcome(TRUE, self)

RECURSIVE TypingValidation_is_instance__vdc(_, _, _)
RECURSIVE InstanceValidation_is_instance__vdc(_, _, _)
RECURSIVE _is_union_instance(_, _, _), union_alternatives(_, _, _, _)
RECURSIVE _is_list_instance(_, _, _), list_items(_, _, _, _, _)
RECURSIVE Construct(_, _), _run_validation(_), run_fields(_, _, _, _)

RECURSIVE union_alternatives_reversed(_, _, _, _)

\* The loop over the alternatives taken from the last one to the first.
union_alternatives_reversed(self, value, args, j) ==
    IF j > Len(args) THEN Outcome(FALSE, self)
    ELSE LET next(r) ==
                 IF r.result THEN Outcome(TRUE, r.self)
                 ELSE union_alternatives_reversed(r.self, value, args, j + 1)
         IN  next(TypingValidation_is_instance__vdc(
                      self, value, args[Len(args) + 1 - j]))

RECURSIVE union_alternatives_summarized(_, _, _, _)

\* The loop over the alternatives that ends, when none matched, by recording
\* one more error, for the union as a whole.
union_alternatives_summarized(self, value, args, j) ==
    IF j > Len(args)
    THEN Outcome(FALSE,
            [self EXCEPT !._field_errors__vdc =
                Append(@, BasicValidationError(
                    get_value_repr(value), type(value), Union(args), None))])
    ELSE LET next(r) ==
                 IF r.result THEN Outcome(TRUE, r.self)
                 ELSE union_alternatives_summarized(r.self, value, args, j + 1)
         IN  next(TypingValidation_is_instance__vdc(self, value, args[j]))

\* for item_annotation in annotation.__args__, from alternative j on
union_alternatives(self, value, args, j) ==
    IF j > Len(args) THEN Outcome(FALSE, self)
    ELSE LET next(r) ==
                 IF r.result THEN Outcome(TRUE, r.self)
                 ELSE union_alternatives(r.self, value, args, j + 1)
         IN  next(TypingValidation_is_instance__vdc(self, value, args[j]))

_is_union_instance(self, value, annotation) ==
    union_alternatives(self, value, annotation.args, 1)

RECURSIVE list_items_checks_all(_, _, _, _, _)

\* The loop over the elements that goes on after an element that does not
\* match, and fails at the end of the list.
list_items_checks_all(self, elems, annotation, j, new_value) ==
    IF j > Len(elems)
    THEN IF self._typing_field_error # None THEN Outcome(FALSE, self)
         ELSE Outcome(TRUE, [self EXCEPT !._replacement__vdc = PList(new_value)])
    ELSE LET item(r) ==
                 list_items_checks_all(
                     IF r.result THEN r.self
                     ELSE [r.self EXCEPT !._typing_field_error =
                              ListValidationError(
                                  j - 1, get_value_repr(elems[j]),
                                  type(elems[j]), annotation)],
                     elems, annotation, j + 1, Append(new_value, elems[j]))
         IN  item(TypingValidation_is_instance__vdc(self, elems[j], annotation))

RECURSIVE list_items_keeps_elements(_, _, _, _, _)

\* The loop over the elements that assembles the new list from the elements
\* as they are, whatever was proposed for them.
list_items_keeps_elements(self, elems, annotation, j, new_value) ==
    IF j > Len(elems)
    THEN Outcome(TRUE, [self EXCEPT !._replacement__vdc = PList(new_value)])
    ELSE LET item(r) ==
                 IF r.result
                 THEN list_items_keeps_elements(
                         r.self, elems, annotation, j + 1,
                         Append(new_value, elems[j]))
                 ELSE Outcome(FALSE,
                         [r.self EXCEPT !._typing_field_error =
                             ListValidationError(
                                 j - 1, get_value_repr(elems[j]),
                                 type(elems[j]), annotation)])
         IN  item(TypingValidation_is_instance__vdc(self, elems[j], annotation))

\* for i, item_value in enumerate(value), from element j on (i = j - 1)
list_items(self, elems, annotation, j, new_value) ==
    IF j > Len(elems)
    THEN Outcome(TRUE, [self EXCEPT !._replacement__vdc = PList(new_value)])
    ELSE LET item(r) ==
                 IF r.result
                 THEN list_items(
                         IF bool(r.self._replacement__vdc)
                         THEN [r.self EXCEPT !._replacement__vdc = PBool(FALSE)]
                         ELSE r.self,
                         elems, annotation, j + 1,
                         Append(new_value,
                                IF bool(r.self._replacement__vdc)
                                THEN r.self._replacement__vdc ELSE elems[j]))
                 ELSE Outcome(FALSE,
                         [r.self EXCEPT !._typing_field_error =
                             ListValidationError(
                                 j - 1, get_value_repr(elems[j]),
                                 type(elems[j]), annotation)])
         IN  item(TypingValidation_is_instance__vdc(self, elems[j], annotation))

_is_list_instance(self, value, annotation) ==
    IF isinstance(value, Class("list"))
    THEN list_items(self, value.elems, annotation.args[1], 1, <<>>)
    ELSE Outcome(FALSE,
            [self EXCEPT !._typing_field_error =
                BasicValidationError(
                    get_value_repr(value), type(value), annotation, None)])

\* The check against a record type that constructs the record type from a
\* mapping only and hands an instance to the check of the layer below.
InstanceValidation_is_instance__vdc_mapping_only(self, value, annotation) ==
    IF /\ annotation.mod = "class"
       /\ issubclass_InstanceValidation(annotation)
       /\ isinstance(value, Class("dict"))
    THEN LET try(made) ==
                 IF ~made.raised /\ made.instance._errors__vdc.items = <<>>
                 THEN Outcome(TRUE,
                         [self EXCEPT !._replacement__vdc = made.instance])
                 ELSE Outcome(FALSE,
                         [self EXCEPT !._field_errors__vdc =
                             Append(@, InstanceValidationError(
                                 get_value_repr(value), type(value), annotation,
                                 IF made.raised THEN made.exc ELSE None,
                                 IF made.raised THEN None
                                 ELSE made.instance._errors__vdc))])
         IN  try(Construct(annotation.name, value.items))
    ELSE BasicValidation_is_instance__vdc(self, value, annotation)

\* The check of a record type that trusts the report an instance carries: an
\* instance of the declared type is accepted as it is when its stored report
\* is empty and rejected with its stored report otherwise.
InstanceValidation_is_instance__vdc_trusts_report(self, value, annotation) ==
    IF /\ annotation.mod = "class"
       /\ issubclass_InstanceValidation(annotation)
       /\ isinstance(value, annotation)
    THEN IF value._errors__vdc.items = <<>>
         THEN Outcome(TRUE, [self EXCEPT !._replacement__vdc = value])
         ELSE Outcome(FALSE,
                 [self EXCEPT !._field_errors__vdc =
                     Append(@, InstanceValidationError(
                         get_value_repr(asdict(value)), "dict", annotation,
                         None, value._errors__vdc))])
    ELSE InstanceValidation_is_instance__vdc_mapping_only(self, value, annotation)

InstanceValidation_is_instance__vdc(self, value, annotation) ==
    LET is_type == annotation.mod = "class"
    IN  IF /\ is_type
           /\ issubclass_InstanceValidation(annotation)
           /\ (isinstance(value, Class("dict")) \/ isinstance(value, annotation))
        THEN LET try(value_, made) ==
                     LET exception == IF made.raised THEN made.exc ELSE None
                         instance == made.instance
                         errors ==
                             IF ~made.raised /\ instance._errors__vdc.items # <<>>
                             THEN instance._errors__vdc ELSE None
                     IN  IF errors = None /\ exception = None
                         THEN Outcome(TRUE,
                                 [self EXCEPT !._replacement__vdc = instance])
                         ELSE Outcome(FALSE,
                                 [self EXCEPT !._field_errors__vdc =
                                     Append(@, InstanceValidationError(
                                         get_value_repr(value_), type(value_),
                                         annotation, exception, errors))])
                 construct(value_) ==
                     try(value_, Construct(annotation.name, value_.items))
             IN  construct(IF isinstance(value, annotation)
                           THEN asdict(value) ELSE value)
        ELSE BasicValidation_is_instance__vdc(self, value, annotation)

\* The check that hands an alias that is not supported to the check of the
\* layer below, as if it were a class.
TypingValidation_is_instance__vdc_falls_back(self, value, annotation) ==
    LET str_ann == str_annotation(annotation)
        is_instance == _get_alias_method(str_ann)
        self_ == [self EXCEPT !._typing_field_error = None]
        alias(r) ==
            IF r.result THEN Outcome(TRUE, r.self)
            ELSE IF r.self._typing_field_error # None
            THEN Outcome(FALSE,
                    [r.self EXCEPT
                       !._field_errors__vdc = Append(@, r.self._typing_field_error),
                       !._typing_field_error = None])
            ELSE Outcome(FALSE, r.self)
    IN  IF _is_typing_alias(str_ann) /\ is_instance # "None"
        THEN alias(CASE is_instance = "_is_union_instance" ->
                            _is_union_instance(self_, value, annotation)
                     [] is_instance = "_is_list_instance" ->
                            _is_list_instance(self_, value, annotation)
                     [] is_instance = "_is_literal_instance" ->
                            _is_literal_instance(self_, value, annotation)
                     [] is_instance = "_is_any_instance" ->
                            _is_any_instance(self_, value, annotation))
        ELSE InstanceValidation_is_instance__vdc(self, value, annotation)

\* The check that fails on an alias that is not supported without recording
\* anything.
TypingValidation_is_instance__vdc_silent(self, value, annotation) ==
    LET str_ann == str_annotation(annotation)
        is_instance == _get_alias_method(str_ann)
        self_ == [self EXCEPT !._typing_field_error = None]
        alias(r) ==
            IF r.result THEN Outcome(TRUE, r.self)
            ELSE IF r.self._typing_field_error # None
            THEN Outcome(FALSE,
                    [r.self EXCEPT
                       !._field_errors__vdc = Append(@, r.self._typing_field_error),
                       !._typing_field_error = None])
            ELSE Outcome(FALSE, r.self)
    IN  IF _is_typing_alias(str_ann) /\ ~_is_supported_alias(str_ann)
        THEN Outcome(FALSE, self)
        ELSE IF _is_typing_alias(str_ann) /\ is_instance # "None"
        THEN alias(CASE is_instance = "_is_union_instance" ->
                            _is_union_instance(self_, value, annotation)
                     [] is_instance = "_is_list_instance" ->
                            _is_list_instance(self_, value, annotation)
                     [] is_instance = "_is_literal_instance" ->
                            _is_literal_instance(self_, value, annotation)
                     [] is_instance = "_is_any_instance" ->
                            _is_any_instance(self_, value, annotation))
        ELSE InstanceValidation_is_instance__vdc(self, value, annotation)

TypingValidation_is_instance__vdc(self, value, annotation) ==
    LET str_ann == str_annotation(annotation)
        is_instance == _get_alias_method(str_ann)
        self_ == [self EXCEPT !._typing_field_error = None]
        alias(r) ==
            IF r.result THEN Outcome(TRUE, r.self)
            ELSE IF r.self._typing_field_error # None
            THEN Outcome(FALSE,
                    [r.self EXCEPT
                       !._field_errors__vdc = Append(@, r.self._typing_field_error),
                       !._typing_field_error = None])
            ELSE Outcome(FALSE, r.self)
    IN  IF _is_typing_alias(str_ann) /\ ~_is_supported_alias(str_ann)
        THEN Outcome(FALSE,
                [self EXCEPT !._field_errors__vdc =
                    Append(@, TypingValidationError(
                        get_value_repr(value), type(value), annotation,
                        TypeError("Alias is not supported!")))])
        ELSE IF _is_typing_alias(str_ann) /\ is_instance # "None"
        THEN alias(CASE is_instance = "_is_union_instance" ->
                            _is_union_instance(self_, value, annotation)
                     [] is_instance = "_is_list_instance" ->
                            _is_list_instance(self_, value, annotation)
                     [] is_instance = "_is_literal_instance" ->
                            _is_literal_instance(self_, value, annotation)
                     [] is_instance = "_is_any_instance" ->
                            _is_any_instance(self_, value, annotation))
        ELSE InstanceValidation_is_instance__vdc(self, value, annotation)

\* ------------------------------------------- field and instance validation

_is_field_valid_Basic(self, field) ==
    LET self_ == _init_field_validation(self, field)
    IN  TypingValidation_is_instance__vdc(
            self_, self_._field_value__vdc, self_._field_annotation__vdc)

\* _is_field_valid without the replacement step.
_is_field_valid_no_replacing(self, field) == _is_field_valid_Basic(self, field)

_is_field_valid(self, field) ==
    LET replace(r) ==
            IF r.result THEN Outcome(TRUE, _try_replacing(r.self)) ELSE r
    IN  replace(_is_field_valid_Basic(self, field))

\* run_fields with the test of the result dropped: the errors of every field
\* are saved, failed or not.
run_fields_saves_all(self, fields, j, log) ==
    IF j > Len(fields) THEN [self |-> self, checked |-> log]
    ELSE LET r == _is_field_valid(self, fields[j])
             entry == [name |-> fields[j].name, result |-> r.result,
                       replacement |-> r.self._replacement__vdc]
         IN  run_fields(_save_current_field_errors(r.self),
                        fields, j + 1, Append(log, entry))

\* The loop over the fields that returns at the first field that fails.
run_fields_stops_at_failure(self, fields, j, log) ==
    IF j > Len(fields) THEN [self |-> self, checked |-> log]
    ELSE LET save(r) ==
                 IF ~r.result
                 THEN [self |-> _save_current_field_errors(r.self),
                       checked |-> Append(log, [name |-> fields[j].name,
                                                result |-> r.result,
                                                replacement |-> r.self._replacement__vdc])]
                 ELSE run_fields(r.self, fields, j + 1,
                                 Append(log, [name |-> fields[j].name,
                                              result |-> r.result,
                                              replacement |-> r.self._replacement__vdc]))
         IN  save(_is_field_valid(self, fields[j]))

\* for field in dataclasses_fields(self), from field j on; log collects, for
\* every field check made, the field's name, the result of the check and the
\* substitution pending when the check returned.
run_fields(self, fields, j, log) ==
    IF j > Len(fields) THEN [self |-> self, checked |-> log]
    ELSE LET save(r) ==
                 run_fields(
                     IF ~r.result THEN _save_current_field_errors(r.self)
                     ELSE r.self,
                     fields, j + 1,
                     Append(log, [name |-> fields[j].name, result |-> r.result,
                                  replacement |-> r.self._replacement__vdc]))
         IN  save(_is_field_valid(self, fields[j]))

\* The instance after the run and, for the observer, the checks it made.
_run_validation(self) ==
    run_fields([_init_validation(self) EXCEPT !.n_runs = @ + 1],
               Fields(self.cls), 1, <<>>)

\* __post_init__ that validates twice.
__post_init___twice(self) == _run_validation(_run_validation(self).self)

__post_init__(self) == _run_validation(self)

\* cls(**kwargs): the __init__ a dataclass generates assigns every field from
\* its keyword or its default and then calls __post_init__; an unexpected
\* keyword or a missing required field raises TypeError before anything runs
\* (the record types under test have at most two required fields).
Construct(cls, kwargs) ==
    LET fields == Fields(cls)
        unexpected == {j \in 1..Len(kwargs) : kwargs[j].key \notin FieldNames(cls)}
        missing == {j \in 1..Len(fields) :
                        ~fields[j].has_default /\ ~HasKey(kwargs, fields[j].name)}
        first(S) == CHOOSE j \in S : \A h \in S : j <= h
        decl(n) == fields[CHOOSE j \in 1..Len(fields) : fields[j].name = n]
        self == [k |-> "inst", cls |-> cls,
                 attrs |-> [n \in FieldNames(cls) |->
                              IF HasKey(kwargs, n) THEN Lookup(kwargs, n)
                              ELSE decl(n).default],
                 n_runs |-> 0,
                 _errors__vdc |-> Unset,
                 _is_replace__vdc |-> Unset,
                 _replaced_field_names |-> Unset,
                 _field_errors__vdc |-> Unset,
                 _field_name__vdc |-> Unset,
                 _field_value__vdc |-> Unset,
                 _field_annotation__vdc |-> Unset,
                 _replacement__vdc |-> Unset,
                 _typing_field_error |-> Unset]
    IN  IF unexpected # {}
        THEN [raised |-> TRUE, instance |-> None, checked |-> <<>>,
              assigned |-> None,
              exc |-> TypeError(cls \o ".__init__() got an unexpected keyword argument '"
                                \o kwargs[first(unexpected)].key \o "'")]
        ELSE IF Cardinality(missing) = 1
        THEN [raised |-> TRUE, instance |-> None, checked |-> <<>>,
              assigned |-> None,
              exc |-> TypeError(cls \o ".__init__() missing 1 required positional argument: '"
                                \o fields[first(missing)].name \o "'")]
        ELSE IF missing # {}
        THEN [raised |-> TRUE, instance |-> None, checked |-> <<>>,
              assigned |-> None,
              exc |-> TypeError(cls \o ".__init__() missing " \o ToString(Cardinality(missing))
                                \o " required positional arguments: '"
                                \o fields[first(missing)].name \o "' and '"
                                \o fields[first(missing \ {first(missing)})].name \o "'")]
        ELSE LET made(run) ==
                     [raised |-> FALSE, instance |-> run.self,
                      checked |-> run.checked, assigned |-> self.attrs,
                      exc |-> None]
             IN  made(__post_init__(self))

\* ------------------------------------------------------------ ValidatedDC

RecursionError(msg) == [k |-> "exc", type |-> "RecursionError", msg |-> msg]

\* The depth of nested calls at which the interpreter raises RecursionError
\* (sys.getrecursionlimit(), scaled down).
RecursionLimit == 5

RECURSIVE get_field_validated_dc(_)

\* get_field_validated_dc(annotation): the ValidatedDC classes used in the
\* annotation of a field (the items of a Literal are values, no classes).
get_field_validated_dc(annotation) ==
    IF "mod" \notin DOMAIN annotation THEN {}
    ELSE IF _is_typing_alias(str_annotation(annotation))
    THEN UNION {get_field_validated_dc(annotation.args[j]) :
                    j \in 1..Len(annotation.args)}
    ELSE IF annotation.mod = "class" /\ annotation.name \in ValidatedClasses
    THEN {annotation.name}
    ELSE {}

RECURSIVE get_nested_validated_dc(_, _)

\* cls.get_nested_validated_dc(), called at the given depth of nested calls:
\* the classes of the fields, and what the same call on each of them returns.
get_nested_validated_dc(cls, depth) ==
    IF depth > RecursionLimit
    THEN [raised |-> TRUE, ret |-> None,
          exc |-> RecursionError("maximum recursion depth exceeded")]
    ELSE LET update(local_validated_dc, calls) ==
                 IF \E r \in calls : r.raised
                 THEN [raised |-> TRUE, ret |-> None,
                       exc |-> RecursionError("maximum recursion depth exceeded")]
                 ELSE [raised |-> FALSE,
                       ret |-> local_validated_dc \cup UNION {r.ret : r \in calls},
                       exc |-> None]
             nest(local_validated_dc) ==
                 update(local_validated_dc,
                        {get_nested_validated_dc(c, depth + 1) :
                            c \in local_validated_dc})
         IN  nest(UNION {get_field_validated_dc(Fields(cls)[j].type) :
                            j \in 1..Len(Fields(cls))})

\* ------------------------------------------------------ module functions

\* get_errors that validates before it answers.
get_errors_revalidates(instance) ==
    LET run == _run_validation(instance)
    IN  [self |-> run.self,
         ret |-> IF run.self._errors__vdc.items # <<>>
                 THEN run.self._errors__vdc ELSE None]

\* The instance after the call and the value the call returns.
get_errors(instance) ==
    [self |-> instance,
     ret |-> IF instance._errors__vdc.items # <<>>
             THEN instance._errors__vdc ELSE None]

\* is_valid answering from the report it found, not from the one it made.
is_valid_stale(instance) ==
    LET run == _run_validation(instance)
    IN  [self |-> run.self, checked |-> run.checked,
         ret |-> PBool(~(instance._errors__vdc.items # <<>>))]

is_valid(instance) ==
    LET answer(run) ==
            [self |-> run.self, checked |-> run.checked,
             ret |-> PBool(~(run.self._errors__vdc.items # <<>>))]
    IN  answer(_run_validation(instance))

\* ------------------------------------------------------------------ inputs

D1(k1, v1) == PDict(<<Item(k1, v1)>>)
D2(k1, v1, k2, v2) == PDict(<<Item(k1, v1), Item(k2, v2)>>)

\* The record types constructed at top level.
TopClasses ==
    {"Foo", "Bar", "Address", "Person", "Mix", "Office", "Wrap", "Team",
     "Conf", "Box", "Order", "Outer", "Nums"}

\* cls(**kwargs) followed by instance.name = value for every item of writes:
\* an expression that stands in a pool for the instance it evaluates to.
Instance(cls, kwargs, writes) ==
    [k |-> "call", cls |-> cls, kwargs |-> kwargs, writes |-> writes]

\* setattr(instance, name, value) for the items of writes from item j on
RECURSIVE setattr(_, _, _)
setattr(instance, writes, j) ==
    IF j > Len(writes) THEN instance
    ELSE setattr([instance EXCEPT !.attrs[writes[j].key] = writes[j].val],
                 writes, j + 1)

\* The value of an entry of a pool.
Eval(entry) ==
    IF entry.k = "call"
    THEN setattr(Construct(entry.cls, entry.kwargs).instance, entry.writes, 1)
    ELSE entry

\* Plain(x=x): an instance of a dataclass that is no validated one.
Plain(x) == [k |-> "inst", cls |-> "Plain", attrs |-> [name \in {"x"} |-> x]]

\* The values a field is given, by the constructor call or by an assignment
\* (an instance is given as the expression that makes it).
Pool(cls, name) ==
    CASE cls = "Foo" -> <<PInt(1), PStr("x"), PBool(TRUE)>>
      [] cls = "Bar" ->
            <<D1("i", PInt(1)), D1("i", PStr("x")), D1("i_x", PInt(1)),
              PInt(5),
              Instance("Foo", <<Item("i", PInt(1))>>, <<>>),
              Instance("Foo", <<Item("i", PStr("x"))>>, <<>>),
              Instance("Foo", <<Item("i", PStr("x"))>>, <<Item("i", PInt(1))>>),
              Instance("Foo", <<Item("i", PInt(1))>>, <<Item("i", PStr("x"))>>)>>
      [] cls = "Address" /\ name = "city" -> <<PStr("Samara"), PInt(5)>>
      [] cls = "Address" /\ name = "zip_code" -> <<None, PStr("x"), PInt(5)>>
      [] cls = "Person" /\ name = "name" -> <<PStr("Ivan"), PInt(5)>>
      [] cls = "Person" /\ name = "contact" ->
            <<D1("phone", PStr("x")), D1("email", PStr("x")),
              D1("phone", PInt(5)), D1("i_x", PStr("x")),
              Instance("Email", <<Item("email", PStr("x"))>>, <<>>)>>
      [] cls = "Mix" ->
            <<PList(<<D1("i", PInt(1))>>),
              PList(<<D1("i", PInt(1)), D1("i", PStr("x"))>>),
              PList(<<D1("i", PStr("x"))>>),
              PList(<<>>), PInt(5)>>
      [] cls = "Office" ->
            <<D1("city", PStr("Samara")), D1("city", PInt(5)),
              D2("city", PStr("Samara"), "zip_code", PInt(5))>>
      [] cls = "Wrap" ->
            <<D1("u", PList(<<D1("i", PInt(1))>>)),
              D1("u", PList(<<D1("i", PInt(1)), D1("i", PStr("x"))>>)),
              D1("u", PInt(5))>>
      [] cls = "Conf" -> <<D1("x", PStr("x")), PInt(5)>>
      [] cls = "Box" ->
            <<PInt(1), D1("i", PInt(1)), PList(<<D1("i", PInt(1))>>)>>
      [] cls = "Team" ->
            <<PList(<<D1("i", PInt(1))>>),
              PList(<<D1("i", PInt(1)), D1("i", PStr("x"))>>),
              PList(<<>>), PInt(5)>>
      [] cls = "Order" /\ name = "foo" ->
            <<D1("i", PInt(1)), D1("i", PStr("x"))>>
      [] cls = "Order" /\ name = "note" -> <<PStr("x"), PInt(5)>>
      [] cls = "Nums" ->
            <<PList(<<PInt(1), PStr("x")>>), PList(<<PInt(1)>>),
              PList(<<D1("i", PInt(1)), PInt(1)>>)>>
      [] cls = "Outer" ->
            <<Instance("Holder", <<Item("p", Plain(PInt(1)))>>, <<>>),
              D1("p", Plain(PInt(1))), D1("p", PInt(5))>>

\* The values an item of a mapping held by a field is set to.
ItemPool == <<PInt(1), PStr("x")>>

\* The keyword arguments of a constructor call: choice[j] picks the value of
\* field j from its pool (0 leaves the field out); extra adds a keyword that
\* names no field.
RECURSIVE Kwargs(_, _, _, _)
Kwargs(cls, choice, extra, j) ==
    IF j > Len(Fields(cls))
    THEN (IF extra THEN <<Item("i_x", PInt(1))>> ELSE <<>>)
    ELSE (IF choice[j] = 0 THEN <<>>
          ELSE <<Item(Fields(cls)[j].name,
                      Eval(Pool(cls, Fields(cls)[j].name)[choice[j]]))>>)
         \o Kwargs(cls, choice, extra, j + 1)

PoolMax(cls) ==
    CHOOSE m \in 0..10 :
        /\ \A j \in 1..Len(Fields(cls)) : Len(Pool(cls, Fields(cls)[j].name)) <= m
        /\ \E j \in 1..Len(Fields(cls)) : Len(Pool(cls, Fields(cls)[j].name)) = m

Choices(cls) ==
    {c \in [1..Len(Fields(cls)) -> 0..PoolMax(cls)] :
        \A j \in 1..Len(Fields(cls)) :
            c[j] <= Len(Pool(cls, Fields(cls)[j].name))}

\* ----------------------------------------------------------------- actions

\* A behaviour follows one instance: its construction, then direct writes to
\* its fields and calls of is_valid and get_errors in any order.  n_writes
\* counts the direct writes.
MaxRuns == 3
MaxWrites == 2

\* The last operation, what it returned, and what the instance held when it
\* was called: its field values, its report and its replace flag.
Call(op, name, ret, attrs, report, flag) ==
    [op |-> op, name |-> name, ret |-> ret, attrs |-> attrs, report |-> report,
     flag |-> flag]

Init ==
    /\ inst = None
    /\ twin = None
    /\ last = Call("", "", None, None, Unset, Unset)
    /\ probe = None
    /\ nested = None
    /\ checked = <<>>
    /\ n_writes = 0

\* instance = cls(**kwargs)
New(cls, choice, extra) ==
    LET assign(made) ==
            /\ inst' = made.instance
            /\ checked' = made.checked
            /\ last' = Call("construct", "", made.exc, made.assigned,
                            Unset, Unset)
    IN  /\ inst = None
        /\ probe = None /\ nested = None
        /\ assign(Construct(cls, Kwargs(cls, choice, extra, 1)))
        /\ UNCHANGED <<twin, probe, nested, n_writes>>

\* a = cls(f=mapping) and b = cls(f=F(**mapping)), for the field f of cls
\* that is declared with the record type F
NewPair(cls, choice) ==
    LET f == Fields(cls)[1]
        assign(made, other) ==
            /\ ~made.raised
            /\ inst' = made.instance
            /\ checked' = made.checked
            /\ twin' = other.instance
            /\ last' = Call("construct_pair", f.name, None, made.assigned,
                            Unset, Unset)
        pair(kwargs, inner) ==
            /\ ~inner.raised
            /\ assign(Construct(cls, kwargs),
                      Construct(cls, SetItem(kwargs, f.name, inner.instance)))
        build(kwargs) ==
            /\ HasKey(kwargs, f.name)
            /\ Lookup(kwargs, f.name).k = "dict"
            /\ pair(kwargs,
                    Construct(f.type.name, Lookup(kwargs, f.name).items))
    IN  /\ inst = None
        /\ probe = None /\ nested = None
        /\ f.type.mod = "class" /\ f.type.name \in ValidatedClasses
        /\ build(Kwargs(cls, choice, FALSE, 1))
        /\ UNCHANGED <<probe, nested, n_writes>>

\* is_valid(instance)
IsValid ==
    /\ inst # None
    /\ inst.n_runs < MaxRuns
    /\ LET assign(r) ==
               /\ inst' = r.self
               /\ checked' = r.checked
               /\ last' = Call("is_valid", "", r.ret, inst.attrs,
                               inst._errors__vdc, inst._is_replace__vdc)
       IN  assign(is_valid(inst))
    /\ UNCHANGED <<twin, probe, nested, n_writes>>

\* is_valid(twin) under a class-level report: the run of one instance
\* replaces the report of the other one too.
IsValidTwin_shares_report ==
    /\ inst # None /\ twin # None
    /\ twin.n_runs < MaxRuns
    /\ LET assign(r) ==
               /\ twin' = r.self
               /\ inst' = [inst EXCEPT !._errors__vdc = r.self._errors__vdc]
       IN  assign(is_valid(twin))
    /\ UNCHANGED <<last, probe, nested, checked, n_writes>>

\* is_valid(twin): a validation run of the second instance, at any point of
\* the life of the first one
IsValidTwin ==
    /\ inst # None /\ twin # None
    /\ twin.n_runs < MaxRuns
    /\ LET assign(r) == twin' = r.self
       IN  assign(is_valid(twin))
    /\ UNCHANGED <<inst, last, probe, nested, checked, n_writes>>

\* get_errors(instance)
GetErrors ==
    /\ inst # None
    /\ LET r == get_errors(inst)
       IN  /\ inst' = r.self
           /\ last' = Call("get_errors", "", r.ret, inst.attrs, inst._errors__vdc,
                          inst._is_replace__vdc)
    /\ UNCHANGED <<twin, probe, nested, checked, n_writes>>

\* instance.name = value
SetAttr(name, j) ==
    /\ inst # None
    /\ n_writes < MaxWrites
    /\ inst' = [inst EXCEPT !.attrs[name] = Eval(Pool(inst.cls, name)[j])]
    /\ last' = Call("setattr", name, None, inst.attrs, inst._errors__vdc,
                    inst._is_replace__vdc)
    /\ n_writes' = n_writes + 1
    /\ UNCHANGED <<twin, probe, nested, checked>>

\* instance.name[key] = value, while the field holds a mapping
SetItemIn(name, key, j) ==
    /\ inst # None
    /\ n_writes < MaxWrites
    /\ inst.attrs[name].k = "dict"
    /\ HasKey(inst.attrs[name].items, key)
    /\ inst' = [inst EXCEPT !.attrs[name] =
                    PDict(SetItem(@.items, key, ItemPool[j]))]
    /\ last' = Call("setitem", name, None, inst.attrs, inst._errors__vdc,
                    inst._is_replace__vdc)
    /\ n_writes' = n_writes + 1
    /\ UNCHANGED <<twin, probe, nested, checked>>

\* instance._is_replace__vdc = flag; instance._replacement__vdc = value;
\* instance._try_replacing()  (the replacement step called on its own, for
\* the field the instance checked last)
TryReplacing(flag, value) ==
    /\ inst # None
    /\ n_writes < MaxWrites
    /\ inst' = _try_replacing([inst EXCEPT !._is_replace__vdc = flag,
                                           !._replacement__vdc = value])
    /\ last' = Call("_try_replacing", inst._field_name__vdc, None,
                    inst.attrs, inst._errors__vdc, flag)
    /\ n_writes' = n_writes + 1
    /\ UNCHANGED <<twin, probe, nested, checked>>

\* The fixture instances the check method is called on: a valid one, whose
\* error accumulator is empty, and an invalid one, whose accumulator holds
\* the error of its field.
Fixtures ==
    <<Construct("Foo", <<Item("i", PInt(1))>>).instance,
      Construct("Foo", <<Item("i", PStr("x"))>>).instance>>

\* The values and the annotations the check method is called with.
CheckValues ==
    <<PInt(1), PStr("x"), PStr("1"), PBool(TRUE), None,
      PTuple(<<PInt(1), PInt(1)>>), PList(<<>>), PList(<<PInt(1)>>),
      PList(<<PInt(1), PStr("x"), PStr("x")>>),
      PList(<<PStr("x"), PInt(1)>>),
      PList(<<D1("i", PInt(1)), PInt(1)>>),
      PList(<<D1("i", PInt(1)), D1("i", PStr("x")), D1("i", PStr("x"))>>),
      D1("i", PInt(1)), D1("i", PStr("x")), D1("i_x", PInt(1)), PDict(<<>>),
      D1("city", PStr("Samara")), D1("d", PInt(5)),
      PList(<<PList(<<D1("i", PInt(1))>>), PList(<<>>)>>),
      PList(<<PList(<<D1("i", PInt(1))>>), PList(<<D1("i", PStr("x"))>>),
              PInt(1)>>),
      PList(<<PList(<<D1("i", PInt(1)), D1("i", PStr("x"))>>)>>),
      Construct("Foo", <<Item("i", PInt(1))>>).instance,
      Construct("Foo", <<Item("i", PStr("x"))>>).instance>>

CheckAnnotations ==
    <<Class("int"), Class("str"), Class("list"), Class("dict"), NotAType("1"),
      typing_Any, Literal(<<PStr("x"), PInt(1)>>),
      Optional(Class("int")),
      Union(<<Class("int"), Class("str")>>),
      Union(<<Class("City"), Class("Address")>>),
      Union(<<Class("Address"), Class("City")>>),
      Union(<<Class("Foo"), Class("dict")>>),
      Union(<<Class("dict"), Class("Foo")>>),
      Class("Foo"), Class("Conf"),
      List(Class("int")), List(Class("Foo")),
      List(Union(<<Class("Foo"), Class("int")>>)), List(typing_Any),
      List(List(Class("Foo"))),
      List(Union(<<List(Class("Foo")), Class("list")>>)),
      Dict(Class("str"), Class("str"))>>

\* self._errors__vdc[name] = self._field_errors__vdc stores the list itself:
\* as long as the accumulator is the list of the field checked last, what a
\* check appends to it shows in the report as well.
Shared(self) ==
    IF HasKey(self._errors__vdc.items, self._field_name__vdc)
    THEN _save_current_field_errors(self)
    ELSE self

\* result = instance._is_instance__vdc(value, annotation), on a fixture; a
\* behaviour makes one such call, or follows the life of one instance.
IsInstance(instance, value, annotation) ==
    LET record(r) ==
            probe' = [before |-> instance, value |-> value,
                      annotation |-> annotation, result |-> r.result,
                      self |-> Shared(r.self)]
    IN  /\ inst = None /\ last.op = "" /\ probe = None /\ nested = None
        /\ record(TypingValidation_is_instance__vdc(instance, value, annotation))
        /\ UNCHANGED <<inst, twin, last, nested, checked, n_writes>>

\* cls.get_nested_validated_dc(), on a record type
GetNested(cls) ==
    /\ inst = None /\ last.op = "" /\ probe = None /\ nested = None
    /\ nested' = [cls |-> cls, call |-> get_nested_validated_dc(cls, 1)]
    /\ UNCHANGED <<inst, twin, last, probe, checked, n_writes>>

AllNames == UNION {FieldNames(c) : c \in ValidatedClasses}

Next ==
    \/ /\ inst = None
       /\ \E cls \in TopClasses : \E choice \in Choices(cls) :
            \E extra \in BOOLEAN : New(cls, choice, extra)
    \/ /\ inst = None
       /\ \E cls \in TopClasses : \E choice \in Choices(cls) : NewPair(cls, choice)
    \/ \E f \in 1..Len(Fixtures) : \E v \in 1..Len(CheckValues) :
            \E a \in 1..Len(CheckAnnotations) :
                IsInstance(Fixtures[f], CheckValues[v], CheckAnnotations[a])
    \/ \E cls \in ValidatedClasses : GetNested(cls)
    \/ IsValid
    \/ IsValidTwin
    \/ GetErrors
    \/ /\ inst # None
       /\ \E name \in FieldNames(inst.cls) :
            \E j \in 1..Len(Pool(inst.cls, name)) : SetAttr(name, j)
    \/ /\ inst # None
       /\ \E name \in FieldNames(inst.cls) : \E key \in AllNames :
            \E j \in 1..Len(ItemPool) : SetItemIn(name, key, j)
    \/ /\ inst # None
       /\ \E flag \in BOOLEAN : \E j \in 0..1 :
            TryReplacing(flag, IF j = 0 THEN None
                               ELSE Eval(Pool(inst.cls, inst._field_name__vdc)[1]))

Spec == Init /\ [][Next]_vars


\* -------------------------------------------------------------- properties

\* inst holds an instance and the last operation on it was a validation run.
AfterRun ==
    inst # None /\ last.op \in {"construct", "construct_pair", "is_valid"}

Report == inst._errors__vdc.items

\* The fields whose check failed, and passed, in the last run.
FailedNow == {checked[j].name : j \in {h \in 1..Len(checked) : ~checked[h].result}}
PassedNow == {checked[j].name : j \in {h \in 1..Len(checked) : checked[h].result}}

\* C1: after every validation run (at construction or by is_valid) the report
\* has a key for a declared field iff the check of that field failed in that
\* run, every value stored in it is a non-empty list of errors, and the
\* instance is reported valid exactly when the report is empty.
C1_ReportKeysAreFailedFields ==
    AfterRun =>
        /\ Keys(Report) = FailedNow
        /\ FailedNow \subseteq FieldNames(inst.cls)
        /\ \A j \in 1..Len(Report) : Len(Report[j].val) > 0
        /\ \A j, h \in 1..Len(Report) : Report[j].key = Report[h].key => j = h
        /\ (get_errors(inst).ret = None) <=> (Report = <<>>)
        /\ last.op = "is_valid" => (last.ret = PBool(Report = <<>>))

\* C1 witness: a run in which one field failed and another passed.
C1_Witness ==
    /\ AfterRun
    /\ FailedNow # {}
    /\ PassedNow # {}
    /\ Keys(Report) = FailedNow

\* C2: is_valid makes a fresh pass over the current field values: it checks
\* every declared field, looking at the value the field held when it was
\* called, and returns true iff the report of that pass is empty, which is
\* iff get_errors then returns None -- also after direct writes to fields.
C2_IsValidFreshResult ==
    last.op = "is_valid" =>
        /\ last.ret = PBool(get_errors(inst).ret = None)
        /\ last.ret = PBool(\A j \in 1..Len(checked) : checked[j].result)
        /\ Len(checked) = Len(Fields(inst.cls))
        /\ \A j \in 1..Len(checked) : checked[j].name = Fields(inst.cls)[j].name
        /\ inst._field_value__vdc = last.attrs[inst._field_name__vdc]

\* C2 witness: an instance whose report was empty is written to directly and
\* is_valid then returns false.
C2_Witness ==
    /\ last.op = "is_valid"
    /\ last.ret = PBool(FALSE)
    /\ last.report = PDict(<<>>)
    /\ n_writes > 0


\* A step that is a call of get_errors leaves the instance as it was, report
\* and transient state included, makes no field check, and returns the report
\* when it has entries and None when it has none; a direct write to a field
\* leaves the report, and so what get_errors returns, as the last run made it.
C3_Step ==
    /\ last'.op = "get_errors" =>
          /\ inst' = inst
          /\ checked' = checked
          /\ last'.ret = IF inst._errors__vdc.items = <<>>
                         THEN None ELSE inst._errors__vdc
    /\ last'.op \in {"setattr", "setitem"} =>
          /\ inst'._errors__vdc = inst._errors__vdc
          /\ inst'.n_runs = inst.n_runs
          /\ get_errors(inst').ret = get_errors(inst).ret

\* C3: get_errors only observes the last computed report: it returns None iff
\* the report is empty and the report otherwise, never runs validation and
\* changes neither the report nor a field nor any transient state; after a
\* direct write it keeps returning the report of the last run.
C3_GetErrorsOnlyObserves == [][C3_Step]_vars

\* C3 witness: get_errors returned None, the report of the last run, for an
\* instance that a later direct write has made invalid.
C3_Witness ==
    /\ last.op = "get_errors"
    /\ n_writes > 0
    /\ last.ret = None
    /\ inst.n_runs = 1
    /\ is_valid(inst).ret = PBool(FALSE)

\* C4: every validation run discards the report of the run before and builds
\* its own: after is_valid the report is the one the same run makes from an
\* instance with no report at all, a field that had a key and passes now has
\* none, the replace flag is on whatever it was before, and the list of
\* replaced fields names the fields this run replaced and no other.
C4_RunRebuildsReport ==
    last.op = "is_valid" =>
        /\ \A name \in Keys(last.report.items) :
              name \in PassedNow => ~HasKey(Report, name)
        /\ Keys(Report) \subseteq FailedNow
        /\ inst._is_replace__vdc = TRUE
        /\ LET done == SelectSeq(checked,
                                 LAMBDA e : e.result /\ e.replacement # None)
           IN  inst._replaced_field_names =
                   [j \in 1..Len(done) |-> done[j].name]

\* C4 witness: is_valid has run on an instance whose report had a key for a
\* field that passes now and whose replace flag was off.
C4_Witness ==
    /\ last.op = "is_valid"
    /\ \E name \in Keys(last.report.items) :
          name \in PassedNow /\ ~HasKey(Report, name)
    /\ last.flag = FALSE
    /\ inst._is_replace__vdc = TRUE

\* C5: construction runs the validator exactly once, after every field has
\* been assigned from its keyword or its default: the run checked every
\* declared field, its report is the one get_errors returns with no call of
\* is_valid in between, and the validator can be run again later.
C5_ConstructionValidatesOnce ==
    (inst # None /\ last.op \in {"construct", "construct_pair"}) =>
        /\ inst.n_runs = 1
        /\ DOMAIN last.attrs = FieldNames(inst.cls)
        /\ \A name \in FieldNames(inst.cls) : last.attrs[name] # Unset
        /\ Len(checked) = Len(Fields(inst.cls))
        /\ inst._errors__vdc # Unset
        /\ get_errors(inst).ret =
              IF FailedNow = {} THEN None ELSE inst._errors__vdc
        /\ is_valid(inst).self.n_runs = 2

\* C5 witness: a freshly constructed instance with a failed field, whose
\* report get_errors returns at once.
C5_Witness ==
    /\ inst # None
    /\ last.op = "construct"
    /\ inst.n_runs = 1
    /\ FailedNow # {}
    /\ get_errors(inst).ret = inst._errors__vdc


\* C6: idempotence -- a call of is_valid that directly follows a call of
\* is_valid, with no write to the instance in between, returns what the first
\* returned and leaves a report equal to the one the first left.
C6_IsValidIdempotent ==
    [][(last.op = "is_valid" /\ last'.op = "is_valid") =>
            /\ last'.ret = last.ret
            /\ inst'._errors__vdc = inst._errors__vdc]_vars


\* The keywords a record type is constructed from when a field holds value:
\* the mapping itself, or asdict of the instance.
AsKwargs(value) ==
    IF value.k = "inst" THEN asdict(value).items ELSE value.items

\* value is a mapping, or an instance of the record type R, from which R is
\* constructed without an exception and with an empty report.
Clean(R, value) ==
    /\ value.k = "dict" \/ (value.k = "inst" /\ value.cls = R)
    /\ LET made == Construct(R, AsKwargs(value))
       IN  ~made.raised /\ made.instance._errors__vdc = PDict(<<>>)

Built(R, value) == Construct(R, AsKwargs(value)).instance

IsRecord(annotation) ==
    annotation.mod = "class" /\ annotation.name \in ValidatedClasses

IsAlias(annotation, name) ==
    annotation.mod = "typing" /\ annotation.name = name

\* What C7 says of the field declared with annotation, given the value the
\* field held when the run began and the value it holds now.
C7_Substituted(annotation, before, now) ==
    /\ (IsRecord(annotation) /\ Clean(annotation.name, before)) =>
            /\ now = Built(annotation.name, before)
            /\ type(now) = annotation.name
    /\ (IsAlias(annotation, "List") /\ IsRecord(annotation.args[1])
            /\ before.k = "list"
            /\ \A j \in 1..Len(before.elems) :
                    Clean(annotation.args[1].name, before.elems[j])) =>
            now = PList([j \in 1..Len(before.elems) |->
                            Built(annotation.args[1].name, before.elems[j])])

\* C7: a field declared with a record type R whose value is a mapping, or an
\* instance of R, from which R is constructed with an empty report passes its
\* check and holds the newly constructed instance of R after the run; the
\* same holds inside a union, for the first alternative that matches (a
\* record type after record types that do not match, or a list of records
\* listed first), and inside a list all of whose items are such mappings.
C7_MappingIsSubstituted ==
    AfterRun =>
        \A j \in 1..Len(Fields(inst.cls)) :
            LET field == Fields(inst.cls)[j]
                before == last.attrs[field.name]
                now == inst.attrs[field.name]
                args == field.type.args
                firstClean(h) ==
                    /\ IsRecord(args[h]) /\ Clean(args[h].name, before)
                    /\ \A g \in 1..(h - 1) :
                            IsRecord(args[g]) /\ ~Clean(args[g].name, before)
                covered(annotation) ==
                    \/ IsRecord(annotation) /\ Clean(annotation.name, before)
                    \/ /\ IsAlias(annotation, "List") /\ IsRecord(annotation.args[1])
                       /\ before.k = "list"
                       /\ \A h \in 1..Len(before.elems) :
                              Clean(annotation.args[1].name, before.elems[h])
            IN  /\ C7_Substituted(field.type, before, now)
                /\ covered(field.type) =>
                       checked[j].result /\ ~HasKey(Report, field.name)
                /\ IsAlias(field.type, "Union") =>
                       /\ \A h \in 1..Len(args) : firstClean(h) =>
                               /\ C7_Substituted(args[h], before, now)
                               /\ checked[j].result
                               /\ ~HasKey(Report, field.name)
                       /\ covered(args[1]) =>
                               /\ C7_Substituted(args[1], before, now)
                               /\ checked[j].result
                               /\ ~HasKey(Report, field.name)

\* C7 witness: after a run a union field that held a mapping holds an
\* instance of the second record type of the union, the first one to match.
C7_Witness ==
    /\ AfterRun
    /\ inst.cls = "Person"
    /\ last.attrs["contact"].k = "dict"
    /\ type(inst.attrs["contact"]) = "Email"
    /\ inst.attrs["contact"] = Built("Email", last.attrs["contact"])

\* C8: the validation machinery overwrites a field only when the check of the
\* field succeeded, a substitution is pending (is not None) and the replace
\* flag is on; a field whose check failed, or for which nothing is pending,
\* or that is handled with the flag off, keeps exactly the value it had.
C8_OverwriteOnlyOnSuccess ==
    /\ AfterRun =>
          \A j \in 1..Len(checked) :
              LET name == checked[j].name
              IN  /\ inst.attrs[name] # last.attrs[name] =>
                        /\ checked[j].result
                        /\ checked[j].replacement # None
                        /\ inst.attrs[name] = checked[j].replacement
                  /\ (~checked[j].result \/ checked[j].replacement = None) =>
                        inst.attrs[name] = last.attrs[name]
                  /\ HasKey(Report, name) => inst.attrs[name] = last.attrs[name]
    /\ (inst # None /\ last.op = "_try_replacing") =>
          /\ (last.flag = FALSE \/ inst._replacement__vdc = None) =>
                inst.attrs = last.attrs
          /\ \A name \in DOMAIN inst.attrs :
                inst.attrs[name] # last.attrs[name] =>
                    /\ name = last.name
                    /\ last.flag = TRUE
                    /\ inst.attrs[name] = inst._replacement__vdc

\* C8 witness: the replacement step was called with a substitution pending
\* and the flag off, and the field kept a value that differs from it.
C8_Witness ==
    /\ inst # None
    /\ last.op = "_try_replacing"
    /\ last.flag = FALSE
    /\ inst._replacement__vdc # None
    /\ inst.attrs[last.name] # inst._replacement__vdc
    /\ inst.attrs = last.attrs


\* The record types a mapping held by a field with this annotation may be
\* substituted by: the record type itself, or the alternatives of a union.
RecordTypes(annotation) ==
    IF IsRecord(annotation) THEN {annotation.name}
    ELSE IF IsAlias(annotation, "Union")
    THEN {annotation.args[h].name :
            h \in {g \in 1..Len(annotation.args) : IsRecord(annotation.args[g])}}
    ELSE {}

\* After a run, a record-typed field that held a mapping and failed its check
\* holds that same mapping still.
C9_Kept ==
    AfterRun =>
        \A j \in 1..Len(checked) :
            LET field == Fields(inst.cls)[j]
            IN  (/\ RecordTypes(field.type) # {}
                 /\ last.attrs[field.name].k = "dict"
                 /\ ~checked[j].result) =>
                    /\ HasKey(Report, field.name)
                    /\ inst.attrs[field.name] = last.attrs[field.name]

\* A call of is_valid that follows the only write made to the instance, a
\* write into the mapping held by the one field that has an entry in the
\* report, and finds a mapping from which a record type of the field can be
\* constructed: it returns true, empties the report and leaves an instance of
\* that record type in the field.
C9_Fixed ==
    (/\ last.op = "setitem" /\ last'.op = "is_valid"
     /\ n_writes = 1
     /\ Keys(inst._errors__vdc.items) = {last.name}
     /\ \E R \in RecordTypes(Fields(inst.cls)[
                    CHOOSE j \in 1..Len(Fields(inst.cls)) :
                        Fields(inst.cls)[j].name = last.name].type) :
            Clean(R, inst.attrs[last.name])) =>
        /\ last'.ret = PBool(TRUE)
        /\ inst'._errors__vdc = PDict(<<>>)
        /\ get_errors(inst').ret = None
        /\ inst'.attrs[last.name].k = "inst"
        /\ \E R \in RecordTypes(Fields(inst.cls)[
                    CHOOSE j \in 1..Len(Fields(inst.cls)) :
                        Fields(inst.cls)[j].name = last.name].type) :
              /\ Clean(R, inst.attrs[last.name])
              /\ inst'.attrs[last.name] = Built(R, inst.attrs[last.name])

\* C9: fix and revalidate -- an instance that is invalid because a
\* record-typed field holds a mapping with bad contents still holds that
\* mapping after the failed run; once the contents are set to valid values
\* the next is_valid returns true, the report is empty and the field holds an
\* instance of the declared record type.
C9_FixAndRevalidate == [][C9_Kept' /\ C9_Fixed]_vars

\* C9 witness: is_valid returned true for an Office whose address had an
\* entry in the report and was mended in place to {'city': 'x'}, and the
\* field holds an Address.
C9_Witness ==
    /\ inst # None /\ inst.cls = "Office"
    /\ last.op = "is_valid"
    /\ last.ret = PBool(TRUE)
    /\ Keys(last.report.items) = {"address"}
    /\ last.attrs["address"] = D1("city", PStr("x"))
    /\ type(inst.attrs["address"]) = "Address"
    /\ Report = <<>>


\* C10: mapping/instance equivalence -- a record type constructed with a
\* record-typed field set to a mapping, and constructed with that field set
\* to an instance of the field's record type built from the same mapping,
\* have identical reports: the same keys, error kinds, nested reports and
\* captured values.
C10_MappingInstanceEquivalence ==
    (last.op = "construct_pair" /\ inst # None /\ twin # None) =>
        inst._errors__vdc = twin._errors__vdc


\* ------------------------------------------- properties of the check method

\* The errors a check appended to the accumulator it found.
Appended(before, after) ==
    SubSeq(after._field_errors__vdc,
           Len(before._field_errors__vdc) + 1, Len(after._field_errors__vdc))

\* A check only appends: the errors it found in the accumulator are kept.
KeptErrors(before, after) ==
    /\ Len(before._field_errors__vdc) <= Len(after._field_errors__vdc)
    /\ SubSeq(after._field_errors__vdc, 1, Len(before._field_errors__vdc))
           = before._field_errors__vdc

\* A pending substitution that is a value to write into the field: a record
\* instance or an assembled list.
Proposed(replacement) == replacement.k \in {"inst", "list"}

IsUnion(annotation) ==
    IsAlias(annotation, "Union") \/ IsAlias(annotation, "Optional")

\* The check of the probed value against alternative j of the probed union,
\* made alone on the fixture.
Alone(j) ==
    TypingValidation_is_instance__vdc(
        probe.before, probe.value, probe.annotation.args[j])

\* The alternatives of the probed union the value matches.
Matching == {j \in 1..Len(probe.annotation.args) : Alone(j).result}

FirstMatching == CHOOSE j \in Matching : \A i \in Matching : j <= i

RECURSIVE AppendedByFirst(_)

\* The errors the alternatives 1..m append, each checked alone.
AppendedByFirst(m) ==
    IF m = 0 THEN <<>>
    ELSE AppendedByFirst(m - 1) \o Appended(probe.before, Alone(m).self)

\* C11: the alternatives of a Union/Optional are tried in declared order and
\* the first one that matches wins, no later alternative being tried: the
\* check succeeds iff some alternative matches, the errors it leaves are
\* those of the alternatives up to the first matching one and of no later
\* one, and the pending substitution is the one the first matching
\* alternative proposes, so that for a value matching both A and B of
\* Union[A, B] the substituted value has A's type.
C11_UnionFirstMatchWins ==
    (probe # None /\ IsUnion(probe.annotation) /\ Matching # {}) =>
        /\ probe.result
        /\ KeptErrors(probe.before, probe.self)
        /\ Appended(probe.before, probe.self) = AppendedByFirst(FirstMatching)
        /\ Proposed(Alone(FirstMatching).self._replacement__vdc) =>
               /\ probe.self._replacement__vdc
                      = Alone(FirstMatching).self._replacement__vdc
               /\ IsRecord(probe.annotation.args[FirstMatching]) =>
                      type(probe.self._replacement__vdc)
                          = probe.annotation.args[FirstMatching].name

\* A mapping that matches both record types of Union[City, Address] was
\* checked and the pending substitution is a City.
C11_Witness ==
    /\ probe # None
    /\ probe.annotation = Union(<<Class("City"), Class("Address")>>)
    /\ Matching = {1, 2}
    /\ probe.result
    /\ type(probe.self._replacement__vdc) = "City"


\* The probed check was against a union and no alternative matches the value.
NoneMatching == probe # None /\ IsUnion(probe.annotation) /\ Matching = {}

\* The errors the probed check appended whose annotation is the probed one.
ForTheWhole ==
    {j \in 1..Len(Appended(probe.before, probe.self)) :
        Appended(probe.before, probe.self)[j].annotation = probe.annotation}

\* C12, as stated: when no alternative of a Union/Optional matches, the check
\* fails and the error list holds a single summarizing error for the union
\* as a whole, an error whose annotation is the union itself.
C12_SingleSummarizingError ==
    NoneMatching => ~probe.result /\ Cardinality(ForTheWhole) = 1

\* C12, amended: when no alternative of a Union/Optional matches, the check
\* fails and appends to the error list, in declared order, the errors that
\* the check against each alternative records, at least one for each
\* alternative; it adds no error for the union as a whole.
C12_ErrorsOfEveryAlternative ==
    NoneMatching =>
        /\ ~probe.result
        /\ KeptErrors(probe.before, probe.self)
        /\ Appended(probe.before, probe.self)
               = AppendedByFirst(Len(probe.annotation.args))
        /\ Len(Appended(probe.before, probe.self)) >= Len(probe.annotation.args)
        /\ ForTheWhole = {}

\* None was checked against Union[int, str] on the fixture whose accumulator
\* holds an error already: the check failed and left one error for int and
\* one for str after it.
C12_Witness ==
    /\ NoneMatching
    /\ probe.annotation = Union(<<Class("int"), Class("str")>>)
    /\ probe.value = None
    /\ probe.before._field_errors__vdc # <<>>
    /\ ~probe.result
    /\ Len(Appended(probe.before, probe.self)) = 2
    /\ Appended(probe.before, probe.self)[1].annotation = Class("int")
    /\ Appended(probe.before, probe.self)[2].annotation = Class("str")


\* The probed check was of a native list against a List annotation.
ListProbed ==
    probe # None /\ IsAlias(probe.annotation, "List") /\ probe.value.k = "list"

\* The check of element j of the probed list (index j - 1) against the
\* element annotation, made alone on the fixture.
Element(j) ==
    TypingValidation_is_instance__vdc(
        probe.before, probe.value.elems[j], probe.annotation.args[1])

\* The elements of the probed list that do not match the element annotation.
Invalid == {j \in 1..Len(probe.value.elems) : ~Element(j).result}

FirstInvalid == CHOOSE j \in Invalid : \A i \in Invalid : j <= i

RECURSIVE AppendedByElements(_)

\* The errors the elements 1..m append, each checked alone.
AppendedByElements(m) ==
    IF m = 0 THEN <<>>
    ELSE AppendedByElements(m - 1) \o Appended(probe.before, Element(m).self)

\* The errors of the probed check that are list-item errors of the probed
\* list itself (those of a nested list carry the nested element annotation).
ItemErrors ==
    {j \in 1..Len(Appended(probe.before, probe.self)) :
        /\ Appended(probe.before, probe.self)[j].cls = "ListValidationError"
        /\ Appended(probe.before, probe.self)[j].annotation
               = probe.annotation.args[1]}

\* C13: list fail-fast -- when the first invalid element of a list is at
\* index k, the check fails and stops at element k: it leaves the instance
\* exactly as the check of the list cut after element k leaves it, the
\* errors it appends are those of the elements up to k followed by one
\* list-item error, that is the only list-item error for the list, and its
\* index is k, however many later elements are invalid too.
C13_ListFailFast ==
    (ListProbed /\ Invalid # {}) =>
        /\ ~probe.result
        /\ KeptErrors(probe.before, probe.self)
        /\ probe.self =
               Shared(TypingValidation_is_instance__vdc(
                          probe.before,
                          PList(SubSeq(probe.value.elems, 1, FirstInvalid)),
                          probe.annotation).self)
        /\ Appended(probe.before, probe.self) =
               Append(AppendedByElements(FirstInvalid),
                      ListValidationError(
                          FirstInvalid - 1,
                          get_value_repr(probe.value.elems[FirstInvalid]),
                          type(probe.value.elems[FirstInvalid]),
                          probe.annotation.args[1]))
        /\ Cardinality(ItemErrors) = 1

\* A list whose elements at the indexes 1 and 2 are both invalid was checked:
\* the one list-item error has index 1.
C13_Witness ==
    /\ ListProbed
    /\ Invalid = {2, 3}
    /\ ~probe.result
    /\ \E j \in ItemErrors :
           Appended(probe.before, probe.self)[j].item_index = 1


\* What the new list holds at position j: the substitution the check of the
\* element proposed, or the element itself when it proposed none.
NewElement(j) ==
    IF Proposed(Element(j).self._replacement__vdc)
    THEN Element(j).self._replacement__vdc
    ELSE probe.value.elems[j]

\* C14: a List check succeeds iff the value is a native list and every
\* element matches the element annotation; on success the pending
\* substitution is a list of the same length and order holding, for each
\* element, the substitution proposed for it or else the element itself; a
\* value that is not a list fails with one basic error for the List
\* annotation, no error of an element, and the pending substitution as it was.
C14_ListCheck ==
    (probe # None /\ IsAlias(probe.annotation, "List")) =>
        /\ probe.result = (probe.value.k = "list" /\ Invalid = {})
        /\ probe.result =>
               /\ probe.self._replacement__vdc.k = "list"
               /\ Len(probe.self._replacement__vdc.elems)
                      = Len(probe.value.elems)
               /\ \A j \in 1..Len(probe.value.elems) :
                      probe.self._replacement__vdc.elems[j] = NewElement(j)
        /\ probe.value.k # "list" =>
               /\ ~probe.result
               /\ probe.self._field_errors__vdc =
                      Append(probe.before._field_errors__vdc,
                             BasicValidationError(
                                 get_value_repr(probe.value), type(probe.value),
                                 probe.annotation, None))
               /\ probe.self._replacement__vdc = probe.before._replacement__vdc

\* A list was checked with success and the new list holds a built instance
\* in the place of one element and another element as it was.
C14_Witness ==
    /\ ListProbed
    /\ probe.result
    /\ \E j \in 1..Len(probe.value.elems) :
           /\ probe.self._replacement__vdc.elems[j].k = "inst"
           /\ probe.value.elems[j].k = "dict"
    /\ \E j \in 1..Len(probe.value.elems) :
           /\ probe.self._replacement__vdc.elems[j] = probe.value.elems[j]
           /\ ~Proposed(Element(j).self._replacement__vdc)


\* C15: a Literal check succeeds iff the value is equal to one of the
\* enumerated values, by the equality of the language and with no conversion
\* of the value (the str '1' is not the int 1; True, an int, equals 1); on
\* success nothing is recorded; on failure exactly one literal error with the
\* value's representation, its runtime type and the Literal annotation is
\* appended; in both cases the pending substitution stays as it was.
C15_LiteralCheck ==
    (probe # None /\ IsAlias(probe.annotation, "Literal")) =>
        /\ probe.result =
               \E j \in 1..Len(probe.annotation.args) :
                   py_eq(probe.value, probe.annotation.args[j])
        /\ probe.result =>
               probe.self._field_errors__vdc = probe.before._field_errors__vdc
        /\ ~probe.result =>
               probe.self._field_errors__vdc =
                   Append(probe.before._field_errors__vdc,
                          LiteralValidationError(
                              get_value_repr(probe.value), type(probe.value),
                              probe.annotation))
        /\ probe.self._replacement__vdc = probe.before._replacement__vdc
        /\ probe.self.attrs = probe.before.attrs

\* The str '1' was checked against a Literal that enumerates the int 1 and
\* not the str: the check failed with one literal error.
C15_Witness ==
    /\ probe # None
    /\ IsAlias(probe.annotation, "Literal")
    /\ probe.value = PStr("1")
    /\ \E j \in 1..Len(probe.annotation.args) :
           probe.annotation.args[j] = PInt(1)
    /\ ~probe.result
    /\ Len(Appended(probe.before, probe.self)) = 1
    /\ Appended(probe.before, probe.self)[1].cls = "LiteralValidationError"


\* C16: a check against Any succeeds for every value, records no error and
\* proposes no substitution, the instance staying as it was; a field
\* declared Any passes every run and holds after the run the value it held
\* when the run began.
C16_AnyAlwaysSucceeds ==
    /\ (probe # None /\ probe.annotation = typing_Any) =>
           /\ probe.result
           /\ probe.self._field_errors__vdc = probe.before._field_errors__vdc
           /\ probe.self._replacement__vdc = probe.before._replacement__vdc
           /\ probe.self.attrs = probe.before.attrs
    /\ AfterRun =>
           \A j \in 1..Len(Fields(inst.cls)) :
               Fields(inst.cls)[j].type = typing_Any =>
                   /\ checked[j].result
                   /\ ~HasKey(Report, Fields(inst.cls)[j].name)
                   /\ inst.attrs[Fields(inst.cls)[j].name]
                          = last.attrs[Fields(inst.cls)[j].name]

\* A mapping from which a record type could be built was checked against Any
\* on the fixture whose accumulator holds an error.
C16_Witness ==
    /\ probe # None
    /\ probe.annotation = typing_Any
    /\ probe.value = D1("i", PInt(1))
    /\ probe.before._field_errors__vdc # <<>>
    /\ probe.result


\* The probed check was against a class that is not a record type.
PrimitiveProbed ==
    probe # None /\ probe.annotation.mod = "class" /\ ~IsRecord(probe.annotation)

\* The probed check was against an object that is no type at all.
NotATypeProbed == probe # None /\ probe.annotation.mod = "object"

\* C17: the check of a value against a concrete type returns the result of
\* isinstance and never raises; on success the instance stays as it was; on
\* failure exactly one basic error with the value's representation, its
\* runtime type and the declared type is appended; when isinstance itself
\* raises, the annotation being no type, the check returns false and that
\* one error holds the exception.
C17_PrimitiveCheck ==
    /\ PrimitiveProbed =>
           /\ probe.result = isinstance(probe.value, probe.annotation)
           /\ probe.result => probe.self = probe.before
           /\ ~probe.result =>
                  probe.self =
                      Shared([probe.before EXCEPT !._field_errors__vdc =
                          Append(@, BasicValidationError(
                              get_value_repr(probe.value), type(probe.value),
                              probe.annotation, None))])
    /\ NotATypeProbed =>
           /\ ~probe.result
           /\ Len(Appended(probe.before, probe.self)) = 1
           /\ Appended(probe.before, probe.self)[1].exception # None
           /\ probe.self =
                  Shared([probe.before EXCEPT !._field_errors__vdc =
                      Append(@, BasicValidationError(
                          get_value_repr(probe.value), type(probe.value),
                          probe.annotation,
                          Appended(probe.before, probe.self)[1].exception))])

\* A value was checked against an object that is no type: the check returned
\* false and the error it appended holds a TypeError.
C17_Witness ==
    /\ NotATypeProbed
    /\ ~probe.result
    /\ Len(Appended(probe.before, probe.self)) = 1
    /\ Appended(probe.before, probe.self)[1].exception.type = "TypeError"


\* A typing alias other than Union, Optional, List, Literal and Any.
Unsupported(annotation) ==
    /\ annotation.mod = "typing"
    /\ annotation.name \notin {"Union", "Optional", "List", "Literal", "Any"}

\* The fields of a record type declared with an alias that is not supported.
UnsupportedFields(cls) ==
    {j \in 1..Len(Fields(cls)) : Unsupported(Fields(cls)[j].type)}

\* C18, as stated: an alias that is not supported makes validation raise,
\* the error propagating to the caller and never being recorded: no
\* construction of a record type with such a field returns an instance, no
\* check against such an alias returns a result, and no report holds an
\* error for such a field.
C18_UnsupportedAliasRaises ==
    /\ inst # None => UnsupportedFields(inst.cls) = {}
    /\ probe # None => ~Unsupported(probe.annotation)

\* What a run records for a field declared with an alias that is not
\* supported, for the value the field held.
UnsupportedError(value, annotation) ==
    TypingValidationError(
        get_value_repr(value), type(value), annotation,
        TypeError("Alias is not supported!"))

\* C18, amended: an alias that is not supported never makes validation
\* raise.  The construction of a record type with such a field returns an
\* instance whose report holds, for the field, exactly one typing error with
\* a TypeError('Alias is not supported!'), whatever the value, and the field
\* keeps its value; every later run does the same; the check of a mapping
\* against such a record type fails with one record error that holds the
\* nested report and no exception; and the error is never the basic error
\* of a primitive check.
C18_UnsupportedAliasRecorded ==
    /\ AfterRun =>
           \A j \in UnsupportedFields(inst.cls) :
               /\ ~checked[j].result
               /\ HasKey(Report, Fields(inst.cls)[j].name)
               /\ Lookup(Report, Fields(inst.cls)[j].name) =
                      <<UnsupportedError(last.attrs[Fields(inst.cls)[j].name],
                                         Fields(inst.cls)[j].type)>>
               /\ inst.attrs[Fields(inst.cls)[j].name]
                      = last.attrs[Fields(inst.cls)[j].name]
    /\ (last.op = "construct" /\ last.ret # None) =>
           last.ret.msg # "Alias is not supported!"
    /\ (/\ probe # None /\ IsRecord(probe.annotation)
        /\ UnsupportedFields(probe.annotation.name) # {}
        /\ probe.value.k = "dict"
        /\ Keys(probe.value.items) = FieldNames(probe.annotation.name)) =>
           /\ ~probe.result
           /\ Len(Appended(probe.before, probe.self)) = 1
           /\ Appended(probe.before, probe.self)[1].cls = "InstanceValidationError"
           /\ Appended(probe.before, probe.self)[1].exception = None
           /\ \A j \in UnsupportedFields(probe.annotation.name) :
                  Lookup(Appended(probe.before, probe.self)[1].errors.items,
                         Fields(probe.annotation.name)[j].name) =
                      <<UnsupportedError(
                            Lookup(probe.value.items,
                                   Fields(probe.annotation.name)[j].name),
                            Fields(probe.annotation.name)[j].type)>>

\* A record type with a field declared Dict[str, str] was constructed with a
\* mapping of a str to a str in the field: the construction returned the
\* instance, and its report holds the error of the field.
C18_Witness ==
    /\ AfterRun
    /\ last.op = "construct"
    /\ inst.cls = "Conf"
    /\ inst.attrs["d"] = D1("x", PStr("x"))
    /\ HasKey(Report, "d")


\* C19: the check of any value, one that would conform included, against an
\* alias that is not supported returns false and appends exactly one error
\* to the accumulator, after the errors found there, and that error holds an
\* exception; no substitution is proposed and no field changes.
C19_UnsupportedAliasCheckFails ==
    (probe # None /\ Unsupported(probe.annotation)) =>
        /\ ~probe.result
        /\ KeptErrors(probe.before, probe.self)
        /\ Len(Appended(probe.before, probe.self)) = 1
        /\ Appended(probe.before, probe.self)[1].exception # None
        /\ probe.self._replacement__vdc = probe.before._replacement__vdc
        /\ probe.self.attrs = probe.before.attrs

\* A mapping of a str to a str was checked against Dict[str, str]: the check
\* returned false and the one error it appended holds an exception.
C19_Witness ==
    /\ probe # None
    /\ probe.annotation = Dict(Class("str"), Class("str"))
    /\ probe.value = D1("i", PStr("x"))
    /\ ~probe.result
    /\ Len(Appended(probe.before, probe.self)) = 1
    /\ Appended(probe.before, probe.self)[1].exception.k = "exc"


\* The probed check was against a record type.
RecordProbed == probe # None /\ IsRecord(probe.annotation)

\* The probed value is a mapping or an instance of the probed record type.
Convertible ==
    \/ probe.value.k = "dict"
    \/ probe.value.k = "inst" /\ probe.value.cls = probe.annotation.name

\* The probed check appended one error and nothing is pending that was not.
OneError(cls) ==
    /\ ~probe.result
    /\ Len(Appended(probe.before, probe.self)) = 1
    /\ Appended(probe.before, probe.self)[1].cls = cls
    /\ Appended(probe.before, probe.self)[1].annotation = probe.annotation
    /\ probe.self._replacement__vdc = probe.before._replacement__vdc

\* C20: the check of a value against a record type R has one of four
\* outcomes.  (1) The value is a mapping or an R instance and R constructed
\* from it has an empty report: success, the new instance is the pending
\* substitution and no error is recorded.  (2) The construction raises:
\* failure with one record error that holds the exception and no nested
\* report.  (3) The construction returns an instance with a report that is
\* not empty: failure with one record error that holds the report and no
\* exception.  (4) The value is neither a mapping nor an R instance: failure
\* with the one basic error of the primitive check.  A record error thus has
\* exactly one of its exception and its nested report set.
C20_RecordCheckOutcomes ==
    RecordProbed =>
        LET new == Appended(probe.before, probe.self)
            outcome(made) ==
                IF made.raised
                THEN /\ OneError("InstanceValidationError")
                     /\ new[1].exception = made.exc
                     /\ new[1].exception # None
                     /\ new[1].errors = None
                ELSE IF made.instance._errors__vdc.items = <<>>
                THEN /\ probe.result
                     /\ new = <<>>
                     /\ probe.self._replacement__vdc = made.instance
                ELSE /\ OneError("InstanceValidationError")
                     /\ new[1].errors = made.instance._errors__vdc
                     /\ new[1].errors # None
                     /\ new[1].exception = None
        IN  /\ KeptErrors(probe.before, probe.self)
            /\ IF Convertible
               THEN outcome(Construct(probe.annotation.name,
                                      AsKwargs(probe.value)))
               ELSE /\ OneError("BasicValidationError")
                    /\ new[1] = BasicValidationError(
                                    get_value_repr(probe.value),
                                    type(probe.value), probe.annotation, None)

\* An instance of the record type whose field holds a value of the wrong
\* type was checked against the record type: the check failed with one
\* record error that holds the nested report and no exception.
C20_Witness ==
    /\ RecordProbed
    /\ probe.value.k = "inst"
    /\ Convertible
    /\ ~probe.result
    /\ Len(Appended(probe.before, probe.self)) = 1
    /\ Appended(probe.before, probe.self)[1].exception = None
    /\ HasKey(Appended(probe.before, probe.self)[1].errors.items, "i")


\* ------------------------------------- properties of nested-type discovery

RECURSIVE Leaves(_)

\* The record types that are leaves of a type expression, under its unions,
\* optionals and lists.
Leaves(annotation) ==
    IF IsRecord(annotation) THEN {annotation.name}
    ELSE IF IsUnion(annotation) \/ IsAlias(annotation, "List")
    THEN UNION {Leaves(annotation.args[j]) : j \in 1..Len(annotation.args)}
    ELSE {}

\* The record types the fields of a record type reference.
References(cls) ==
    UNION {Leaves(Fields(cls)[j].type) : j \in 1..Len(Fields(cls))}

RECURSIVE ReachableWithin(_, _)

\* The record types reached from those of S through at most n references.
ReachableWithin(S, n) ==
    IF n = 0 THEN S
    ELSE ReachableWithin(S \cup UNION {References(c) : c \in S}, n - 1)

\* The record types reachable from a record type through one or more field
\* references: the transitive closure.
Reachable(cls) ==
    ReachableWithin(References(cls), Cardinality(ValidatedClasses))

\* The graph of the record types reachable from cls has a cycle.
Cyclic(cls) == \E c \in Reachable(cls) \cup {cls} : c \in Reachable(c)

\* C21: get_nested_validated_dc on a record type returns exactly the set of
\* the record types reachable from it through one or more field references,
\* the transitive closure of the record-type leaves of the field
\* annotations, whatever the record type.
C21_NestedIsTransitiveClosure ==
    nested # None =>
        /\ ~nested.call.raised
        /\ nested.call.ret = Reachable(nested.cls)

\* C21 on the record types whose graph has no cycle: there the call returns
\* the transitive closure, and it is made with no instance constructed,
\* validated or checked.
C21_ClosureWithoutCycle ==
    (nested # None /\ ~Cyclic(nested.cls)) =>
        /\ ~nested.call.raised
        /\ nested.call.ret = Reachable(nested.cls)
        /\ inst = None /\ twin = None /\ probe = None /\ checked = <<>>

\* The call was made on a record type that reaches record types through a
\* union, a list in the union and the fields of the record types reached.
C21_ClosureWitness ==
    /\ nested # None
    /\ nested.cls = "Workers"
    /\ nested.call.ret = {"Person", "Phone", "Email"}

\* C22: nested-type discovery terminates on a cyclic graph of record types
\* (A references B and B references A, or A references itself) and returns
\* the finite set of the reachable record types.
C22_DiscoveryTerminatesOnCycles ==
    (nested # None /\ Cyclic(nested.cls)) =>
        /\ ~nested.call.raised
        /\ IsFiniteSet(nested.call.ret)
        /\ nested.call.ret = Reachable(nested.cls)


\* ------------------------------------------- properties of the validation run

\* C23: no state is shared across instances -- a run of one instance leaves
\* the other instance exactly as it was (its report, its transient state and
\* its field values), and what a run makes of an instance is what is_valid
\* makes of that instance alone, so in every interleaving of the runs and
\* writes of two instances each one is as if it had been run alone.
C23_Step ==
    /\ (twin # None /\ twin' # twin) =>
           /\ twin' = is_valid(twin).self
           /\ inst' = inst
    /\ (inst # None /\ twin # None /\ inst' # inst) => twin' = twin
    /\ (inst # None /\ inst' # inst /\ inst'.n_runs # inst.n_runs) =>
           inst' = is_valid(inst).self

C24_EveryFieldOnceInOrder ==
    AfterRun =>
        /\ [j \in 1..Len(checked) |-> checked[j].name] =
               [j \in 1..Len(Fields(inst.cls)) |-> Fields(inst.cls)[j].name]
        /\ \A j \in 1..Len(checked) :
               ~checked[j].result => HasKey(Report, checked[j].name)
        /\ Cardinality(Keys(Report)) =
               Cardinality({j \in 1..Len(checked) : ~checked[j].result})

\* A run in which the first field failed and the field declared after it was
\* checked and failed too.
C24_Witness ==
    /\ AfterRun
    /\ Len(checked) > 1
    /\ ~checked[1].result /\ ~checked[2].result
    /\ Keys(Report) = {checked[1].name, checked[2].name}


\* The instance as the last run found it: the field values the run started
\* from, nothing recorded and nothing pending.
BeforeRun ==
    [_init_validation([inst EXCEPT !.attrs = last.attrs])
        EXCEPT !._field_errors__vdc = <<>>, !._replacement__vdc = None]

\* The check of field j of the last run agrees with check r of that field.
SameCheck(j, r) ==
    LET name == Fields(inst.cls)[j].name
    IN  /\ checked[j].result = r.result
        /\ checked[j].replacement = r.self._replacement__vdc
        /\ inst.attrs[name] = r.self.attrs[name]
        /\ IF r.result THEN ~HasKey(Report, name)
           ELSE /\ HasKey(Report, name)
                /\ Lookup(Report, name) = r.self._field_errors__vdc

\* C25: whatever state an instance is in, the reset made before a field is
\* checked leaves the error accumulator empty and the pending substitution
\* None, and sets the current field name, value and declared type to those of
\* that field; and after a run every field has the result, the errors, the
\* pending substitution and the value that its own check gives when nothing
\* else was checked before it -- nothing of another field's check is
\* attributed or applied to it.
C25_FieldStateReset ==
    /\ inst # None =>
          \A j \in 1..Len(Fields(inst.cls)) :
              LET field == Fields(inst.cls)[j]
                  reset(self) ==
                      /\ self._field_errors__vdc = <<>>
                      /\ self._replacement__vdc = None
                      /\ self._field_name__vdc = field.name
                      /\ self._field_value__vdc = inst.attrs[field.name]
                      /\ self._field_annotation__vdc = field.type
              IN  reset(_init_field_validation(inst, field))
    /\ AfterRun =>
          \A j \in 1..Len(Fields(inst.cls)) :
              SameCheck(j, _is_field_valid(BeforeRun, Fields(inst.cls)[j]))

\* A run whose first field was a mapping replaced by the instance built from
\* it and whose second field was checked after it: the second field failed
\* with an error of its own, nothing is pending for it and it kept its value.
C25_Witness ==
    /\ AfterRun
    /\ Len(checked) = 2
    /\ checked[1].result /\ checked[1].replacement # None
    /\ inst.attrs[checked[1].name] = checked[1].replacement
    /\ ~checked[2].result /\ checked[2].replacement = None
    /\ Len(Lookup(Report, checked[2].name)) = 1
    /\ inst.attrs[checked[2].name] = last.attrs[checked[2].name]


\* ------------------------------------------- instances as values of a field

\* decompose(instance): the mapping of the field names of an instance to the
\* values they hold, one level deep.
decompose(value) ==
    PDict([j \in 1..Len(Fields(value.cls)) |->
              Item(Fields(value.cls)[j].name,
                   value.attrs[Fields(value.cls)[j].name])])

\* Field j of the last run was declared with a record type and held an
\* instance of that type when the run started.
HeldInstance(j) ==
    LET field == Fields(inst.cls)[j]
    IN  /\ IsRecord(field.type)
        /\ last.attrs[field.name].k = "inst"
        /\ last.attrs[field.name].cls = field.type.name

\* C26: an instance held by a field declared with its record type is
\* decomposed one level only, its field values going unchanged to the
\* constructor of the fresh instance: the check of the field is the check of
\* the one-level mapping of the instance, and whenever the instance validates
\* on its own the field is accepted.
C26_ShallowDecomposition ==
    AfterRun =>
        \A j \in 1..Len(Fields(inst.cls)) :
            HeldInstance(j) =>
                LET field == Fields(inst.cls)[j]
                    value == last.attrs[field.name]
                    same(built) ==
                        /\ checked[j].result =
                               (~built.raised /\ built.instance._errors__vdc.items = <<>>)
                        /\ checked[j].result =>
                               checked[j].replacement = built.instance
                    accepted(own) ==
                        own.ret = PBool(TRUE) => checked[j].result
                IN  /\ same(Construct(field.type.name, decompose(value).items))
                    /\ accepted(is_valid(value))


\* C27: whether an instance held by a field declared with its record type is
\* accepted is decided by the fresh instance built from what its fields hold
\* now, never by the report it carries: the field is accepted iff the fresh
\* instance has an empty report and then holds the fresh instance; otherwise
\* it has one record error carrying the report of the fresh instance; and the
\* instance that was passed is as it was, report included.
C27_AcceptanceByRebuilding ==
    AfterRun =>
        \A j \in 1..Len(Fields(inst.cls)) :
            HeldInstance(j) =>
                LET field == Fields(inst.cls)[j]
                    value == last.attrs[field.name]
                    rebuilt(built) ==
                        /\ ~built.raised
                        /\ checked[j].result =
                               (built.instance._errors__vdc.items = <<>>)
                        /\ checked[j].result =>
                               /\ inst.attrs[field.name] = built.instance
                               /\ ~HasKey(Report, field.name)
                        /\ ~checked[j].result =>
                               /\ inst.attrs[field.name] = value
                               /\ HasKey(Report, field.name)
                               /\ Lookup(Report, field.name) =
                                      <<InstanceValidationError(
                                          get_value_repr(asdict(value)), "dict",
                                          field.type, None,
                                          built.instance._errors__vdc)>>
                        /\ j = Len(Fields(inst.cls)) =>
                               inst._field_value__vdc = value
                IN  rebuilt(Construct(field.type.name, asdict(value).items))

\* An instance built invalid and fixed since, still carrying its report, was
\* accepted as the value of the field.
C27_Witness ==
    /\ AfterRun
    /\ inst.cls = "Bar"
    /\ last.attrs["foo"].k = "inst"
    /\ last.attrs["foo"]._errors__vdc.items # <<>>
    /\ checked[1].result
    /\ Report = <<>>

\* An instance built valid and set to an invalid value since, carrying an
\* empty report, was rejected with the report of the fresh instance.
C27_WitnessRejected ==
    /\ AfterRun
    /\ inst.cls = "Bar"
    /\ last.attrs["foo"].k = "inst"
    /\ last.attrs["foo"]._errors__vdc.items = <<>>
    /\ ~checked[1].result
    /\ Lookup(Report, "foo")[1].errors.items # <<>>


\* ----------------------------------------- substitutions and recorded errors

\* The check of value against annotation made for field, with nothing
\* recorded and nothing pending before it.
CheckAlone(field, value, annotation) ==
    TypingValidation_is_instance__vdc(
        _init_field_validation(BeforeRun, field), value, annotation)

\* The alternatives of the declared type of field that accept value, by index.
Accepting(field, value) ==
    {k \in 1..Len(field.type.args) :
        CheckAlone(field, value, field.type.args[k]).result}

\* The annotation proposes no substitution when it accepts a value: a class
\* that is no record type, a Literal or Any.
ProposesNothing(annotation) ==
    \/ annotation.mod = "class" /\ ~IsRecord(annotation)
    \/ IsAlias(annotation, "Literal")
    \/ IsAlias(annotation, "Any")

\* C28: a substitution left pending by a union alternative that failed is
\* never written to the field -- when the first alternative of a union that
\* accepts the value proposes no substitution the field keeps the value it
\* had -- and after any run every field reported valid holds a value that
\* matches its declared type.
C28_NoStaleSubstitution ==
    AfterRun =>
        \A j \in 1..Len(Fields(inst.cls)) :
            LET field == Fields(inst.cls)[j]
                value == last.attrs[field.name]
                first(S) == CHOOSE k \in S : \A h \in S : k <= h
            IN  checked[j].result =>
                    /\ (/\ IsUnion(field.type)
                        /\ Accepting(field, value) # {}
                        /\ ProposesNothing(
                               field.type.args[first(Accepting(field, value))]))
                           => inst.attrs[field.name] = value
                    /\ CheckAlone(field, inst.attrs[field.name], field.type).result


\* The elements of a sequence, as a set.
Range(seq) == {seq[j] : j \in 1..Len(seq)}

\* The errors that the alternatives of union record on value before the first
\* alternative that accepts it, when there is one.
ErrorsBeforeAccepted(field, value, union) ==
    LET accepting == {k \in 1..Len(union.args) :
                         CheckAlone(field, value, union.args[k]).result}
    IN  UNION {Range(CheckAlone(field, value, union.args[h]).self._field_errors__vdc) :
                  h \in {h \in 1..Len(union.args) : \A k \in accepting : h < k}
                        \cap {h \in 1..Len(union.args) : accepting # {}}}

\* C29: every error in the error list of a failing field describes a value
\* that was rejected: of a list whose elements are checked against a union,
\* the errors that earlier alternatives recorded on an element that a later
\* alternative accepted are not in the list the field is reported with.
C29_OnlyErrorsOfRejectedValues ==
    AfterRun =>
        \A j \in 1..Len(Fields(inst.cls)) :
            LET field == Fields(inst.cls)[j]
                value == last.attrs[field.name]
            IN  (/\ ~checked[j].result
                 /\ IsAlias(field.type, "List")
                 /\ IsUnion(field.type.args[1])
                 /\ value.k = "list") =>
                    \A h \in 1..Len(value.elems) :
                        ErrorsBeforeAccepted(field, value.elems[h],
                                             field.type.args[1])
                            \cap Range(Lookup(Report, field.name)) = {}


\* What the check of value against the declared type of field proposes to
\* put in its place: a new instance or a new list, when it proposes one.
Substitution(self, field, value) ==
    LET proposed(r) ==
            IF r.result /\ r.self._replacement__vdc.k \in {"inst", "list"}
            THEN {r.self._replacement__vdc} ELSE {}
    IN  proposed(TypingValidation_is_instance__vdc(
                     _init_field_validation(self, field), value, field.type))

\* The instance sub stands for the mapping m: every key of m names a field of
\* sub that holds the value of m or the substitution of that value, and every
\* other field holds its declared default.
StandsFor(sub, m) ==
    /\ sub.k = "inst"
    /\ Keys(m.items) \subseteq FieldNames(sub.cls)
    /\ \A j \in 1..Len(Fields(sub.cls)) :
           LET field == Fields(sub.cls)[j]
           IN  IF HasKey(m.items, field.name)
               THEN sub.attrs[field.name] \in
                        {Lookup(m.items, field.name)}
                            \cup Substitution(sub, field, Lookup(m.items, field.name))
               ELSE field.has_default /\ sub.attrs[field.name] = field.default

\* C30: a validation run leaves the objects it was given as they were -- the
\* value the last field check looked at is still the value the field held
\* when the run started, and a field that was not substituted still holds
\* that very value -- so the only write is the assignment of a substitution
\* to the instance's own field; and the instance substituted for a valid
\* mapping stands for that mapping.
C30_InputsUnchanged ==
    AfterRun =>
        /\ inst._field_value__vdc = last.attrs[inst._field_name__vdc]
        /\ \A j \in 1..Len(Fields(inst.cls)) :
               LET field == Fields(inst.cls)[j]
                   value == last.attrs[field.name]
               IN  /\ (~checked[j].result \/ checked[j].replacement = None) =>
                          inst.attrs[field.name] = value
                   /\ (/\ checked[j].result
                       /\ IsRecord(field.type)
                       /\ value.k = "dict") =>
                          StandsFor(inst.attrs[field.name], value)

====
